---- MODULE Spec2Model ----
(***************************************************************************)
(* A model of internal/zipper/zipper.go: the parallel archive creation     *)
(* pipeline (ZipWithProgressAndFile, GzipWithProgressAndFile), the         *)
(* extraction pipelines (ExtractWithProgress, ExtractGzipWithProgress)     *)
(* and the checksum lifecycle (calculateFileChecksum, addChecksumToZip,    *)
(* writeChecksumFile, VerifyChecksum).                                     *)
(*                                                                         *)
(* Source trees hold directories and regular files only.  A path is a      *)
(* sequence of components; a file's content is a sequence of bytes.        *)
(***************************************************************************)
EXTENDS Integers, Sequences, FiniteSets, TLC

\* ------------------------------------------------------------------ bounds

\* Largest number of CPUs runtime.NumCPU() reports in the model.
MaxCPU == 14

\* Largest number of entries (directories and files) of a source tree.
MaxEntries == 3

\* ------------------------------------------------------------------ paths

\* The destination directory of an extraction, as one path component.
DestRoot == "dest"

\* path.Clean / filepath.Clean on a relative path given as its components:
\* "." is dropped, ".." removes the component before it, or stays when there
\* is none (or only ".." before it).
RECURSIVE CleanFrom(_, _)
CleanFrom(comps, out) ==
    IF comps = <<>> THEN out
    ELSE LET c == Head(comps) IN
         IF c = "." THEN CleanFrom(Tail(comps), out)
         ELSE IF c = ".."
              THEN IF out # <<>> /\ out[Len(out)] # ".."
                   THEN CleanFrom(Tail(comps), SubSeq(out, 1, Len(out) - 1))
                   ELSE CleanFrom(Tail(comps), Append(out, c))
              ELSE CleanFrom(Tail(comps), Append(out, c))

Clean(comps) == CleanFrom(comps, <<>>)

\* A mutant of IsLocal: the ".." test made on the uncleaned path.
IsLocalNoClean(name) ==
    /\ ~name.abs
    /\ name.comps # <<>>
    /\ name.comps[1] # ".."

\* filepath.IsLocal(name) (unixIsLocal): not absolute, not empty, and, once
\* cleaned when it holds a "." or ".." component, not ".." nor below "../".
\* An entry name is [abs, comps, slash]: rooted or not, its components, and
\* whether it ends with "/".
IsLocal(name) ==
    /\ ~name.abs
    /\ name.comps # <<>>
    /\ LET hasDots == \E i \in 1..Len(name.comps) : name.comps[i] \in {".", ".."}
           p == IF hasDots THEN Clean(name.comps) ELSE name.comps
       IN  ~(p # <<>> /\ p[1] = "..")

\* filepath.Join(destDir, filepath.FromSlash(name)): the two are joined with a
\* separator (a rooted name is NOT taken as a root) and the result is cleaned.
JoinDest(name) == Clean(<<DestRoot>> \o name.comps)

\* filepath.Dir(destPath) of a cleaned path.
Dir(p) == IF p = <<>> THEN <<>> ELSE SubSeq(p, 1, Len(p) - 1)

\* A cleaned path lies in the destination root.
Inside(p) == p # <<>> /\ p[1] = DestRoot

\* The directories os.MkdirAll(p) makes sure exist: p and its ancestors.
Ancestors(p) == { SubSeq(p, 1, k) : k \in 1..Len(p) }

\* ------------------------------------------------------------ source tree

\* The paths a source tree is drawn from, in filepath.WalkDir's (lexical,
\* depth-first) order, relative to the source root.
WalkOrder == << <<"d">>, <<"d", "f.JPG">>, <<"e">>, <<"g.txt">>, <<"h.gz">> >>

SrcDirs == { <<"d">>, <<"e">> }

\* The content of each regular file ("h.gz" is an empty file).
Content(p) == IF p = <<"d", "f.JPG">> THEN <<1>>
              ELSE IF p = <<"g.txt">> THEN <<2, 3>>
              ELSE <<>>

Range(s) == { s[i] : i \in 1..Len(s) }

\* A tree holds the parent directory of each of its entries.
Trees == { t \in SUBSET Range(WalkOrder) :
             /\ Cardinality(t) <= MaxEntries
             /\ \A p \in t : Len(p) > 1 => Dir(p) \in t }

RECURSIVE SumSizes(_)
SumSizes(ps) == IF ps = {} THEN 0
                ELSE LET p == CHOOSE q \in ps : TRUE
                     IN  Len(Content(p)) + SumSizes(ps \ {p})

FilesOf(t) == t \ SrcDirs

\* getWorkerCount(): a fifth of the CPUs, at least one.
GetWorkerCountZero(numCPU) == numCPU \div 5

GetWorkerCount(numCPU) == IF numCPU \div 5 < 1 THEN 1 ELSE numCPU \div 5

\* ---------------------------------------------------- compression policy

\* filepath.Ext(filename): the suffix of the last component that begins at
\* its last dot, empty when it has none; over the names of the model.
Ext(comp) == IF comp = "f.JPG" THEN ".JPG"
             ELSE IF comp = "g.txt" THEN ".txt"
             ELSE IF comp = "h.gz" THEN ".gz"
             ELSE ""

\* strings.ToLower over the extensions modelled.
ToLower(ext) == IF ext = ".ZIP" THEN ".zip"
                ELSE IF ext = ".JPG" THEN ".jpg"
                ELSE ext

\* The noCompress map of getCompressionMethod.
NoCompress == { ".zip", ".gz", ".7z", ".rar",
                ".jpg", ".jpeg", ".png", ".gif", ".webp",
                ".mp3", ".mp4", ".avi", ".mkv", ".mov",
                ".pdf", ".docx", ".xlsx", ".pptx" }

\* getCompressionMethod(filename): zip.Store or zip.Deflate.
GetCompressionMethod(path) ==
    IF ToLower(Ext(path[Len(path)])) \in NoCompress THEN "Store" ELSE "Deflate"

MB == 1024 * 1024

\* flate.BestCompression, flate.DefaultCompression, flate.BestSpeed, and the
\* level 4 of the third tier.
BestCompression == 9

DefaultCompression == -1

FavorSpeed == 4

BestSpeed == 1

\* A mutant of GetOptimalCompressionLevel: the tiers end at their upper
\* limit, the limit included.
GetOptimalCompressionLevelInclusive(size) ==
    IF size <= 10 * MB THEN BestCompression
    ELSE IF size <= 100 * MB THEN DefaultCompression
    ELSE IF size <= 500 * MB THEN FavorSpeed
    ELSE BestSpeed

\* getOptimalCompressionLevel(totalSize)
GetOptimalCompressionLevel(size) ==
    IF size < 10 * MB THEN BestCompression
    ELSE IF size < 100 * MB THEN DefaultCompression
    ELSE IF size < 500 * MB THEN FavorSpeed
    ELSE BestSpeed

\* ------------------------------------------------------------- checksums

HexDigits == <<"0", "1", "2", "3", "4", "5", "6", "7",
               "8", "9", "a", "b", "c", "d", "e", "f">>

\* hex.EncodeToString of a digest (two digits stand for the sixty-four).
HexEncode(n) == << HexDigits[(n \div 16) + 1], HexDigits[(n % 16) + 1] >>

\* A mutant of BytesOf: the data of the entries is left out of the hash.
BytesOfNoData(file) ==
    [fmt |-> file.fmt,
     entries |-> [i \in 1..Len(file.entries) |-> [file.entries[i] EXCEPT !.data = <<>>]],
     comment |-> file.comment, sealed |-> file.sealed, damaged |-> file.damaged]

\* The bytes of an archive file that io.Copy(hash, file) feeds to SHA-256:
\* all of them.
BytesOf(file) == [fmt |-> file.fmt, entries |-> file.entries,
                  comment |-> file.comment, sealed |-> file.sealed,
                  damaged |-> file.damaged]

\* SHA-256 as a collision-free function: the digest of a content is its
\* place in the table of the contents hashed so far, a new place for a new
\* content (table is that sequence).
ShaTableAfter(table, bytes) ==
    IF \E i \in 1..Len(table) : table[i] = bytes THEN table
    ELSE Append(table, bytes)

Sha256(table, bytes) ==
    CHOOSE i \in 1..Len(ShaTableAfter(table, bytes)) :
        ShaTableAfter(table, bytes)[i] = bytes

\* calculateFileChecksum(path): the hex SHA-256 of the file's bytes, or an
\* error when the file cannot be opened.
CalculateFileChecksum(table, file) ==
    IF ~file.exists THEN [err |-> "open", sum |-> <<>>]
    ELSE [err |-> "nil", sum |-> HexEncode(Sha256(table, BytesOf(file)))]

\* The prefix of the zip comment: "SHA256: ".
ChecksumPrefix == <<"S", "H", "A", "2", "5", "6", ":", " ">>

\* strings.HasPrefix and strings.TrimPrefix.
HasPrefix(s, pre) == Len(s) >= Len(pre) /\ SubSeq(s, 1, Len(pre)) = pre

TrimPrefix(s, pre) == IF HasPrefix(s, pre) THEN SubSeq(s, Len(pre) + 1, Len(s)) ELSE s

IsSpace(c) == c \in {" ", "\n", "\t"}

\* strings.Fields: the maximal runs of non-space characters.
RECURSIVE FieldsFrom(_, _, _)
FieldsFrom(s, cur, out) ==
    IF s = <<>> THEN (IF cur = <<>> THEN out ELSE Append(out, cur))
    ELSE IF IsSpace(Head(s))
         THEN FieldsFrom(Tail(s), <<>>, IF cur = <<>> THEN out ELSE Append(out, cur))
         ELSE FieldsFrom(Tail(s), Append(cur, Head(s)), out)

Fields(s) == FieldsFrom(s, <<>>, <<>>)

\* filepath.Base(archivePath), as characters.
BaseName == <<"a">>

\* The sidecar's text: fmt.Sprintf("%s *%s\n", checksum, base).
ChecksumFileText(checksum) == checksum \o <<" ", "*">> \o BaseName \o <<"\n">>

\* strings.ToLower(filepath.Ext(archivePath)) over the extensions modelled.
ToLowerExt(ext) == ToLower(ext)

NoFile == [exists |-> FALSE, fmt |-> "none", entries |-> <<>>,
           comment |-> <<>>, sealed |-> FALSE, damaged |-> FALSE]

NoText == [exists |-> FALSE, text |-> <<>>]

\* zip.OpenReader succeeds: the file is a zip whose central directory and
\* end record were written and are intact.
ZipReadable(file) ==
    file.exists /\ file.fmt = "zip" /\ file.sealed /\ ~file.damaged

VerifyError(e) == [ok |-> FALSE, stored |-> <<>>, err |-> e]

\* A mutant of VerifyChecksum: a digest mismatch is returned as an error.
VerifyChecksumMismatchIsError(ext, file, side, table) ==
    LET act == CalculateFileChecksum(table, file)
        stored == IF ToLowerExt(ext) = ".zip"
                  THEN TrimPrefix(file.comment, ChecksumPrefix)
                  ELSE IF Fields(side.text) = <<>> THEN <<>> ELSE Fields(side.text)[1]
    IN  IF stored = <<>> \/ act.err # "nil" \/ stored # act.sum
        THEN VerifyError("checksum mismatch")
        ELSE [ok |-> TRUE, stored |-> stored, err |-> "nil"]

\* VerifyChecksum(archivePath): ext is the path's extension, file the
\* archive at that path, side the file at archivePath + ".sha256".
VerifyChecksum(ext, file, side, table) ==
    IF ToLowerExt(ext) = ".zip"
    THEN IF ~ZipReadable(file) THEN VerifyError("open")
         ELSE IF ~HasPrefix(file.comment, ChecksumPrefix)
              THEN VerifyError("no checksum found in archive")
              ELSE LET stored == TrimPrefix(file.comment, ChecksumPrefix)
                       act == CalculateFileChecksum(table, file)
                   IN  IF act.err # "nil" THEN VerifyError(act.err)
                       ELSE [ok |-> stored = act.sum, stored |-> stored,
                             err |-> "nil"]
    ELSE IF ToLowerExt(ext) = ".gz"
         THEN IF ~side.exists THEN VerifyError("checksum file not found")
              ELSE LET parts == Fields(side.text) IN
                   IF Len(parts) < 1
                   THEN VerifyError("invalid checksum file format")
                   ELSE LET stored == parts[1]
                            act == CalculateFileChecksum(table, file)
                        IN  IF act.err # "nil" THEN VerifyError(act.err)
                            ELSE [ok |-> stored = act.sum, stored |-> stored,
                                  err |-> "nil"]
         ELSE VerifyError("unsupported archive format")

\* --------------------------------------------------------------- state

VARIABLES
    workerCount,  \* getWorkerCount()
    format,       \* the container created: "zip" or "gz"
    phase,        \* the operation running: "create", "verify", "extract"
    \* creation
    tree,         \* the source directory: its paths
    cpc,          \* where the create call stands
    stats,        \* the ArchiveStats it returns
    cErr,         \* the error it returns
    files,        \* the fileJobs collected by the second walk
    cJobChan,     \* jobChan: indexes into files
    cJobClosed,
    cProd,        \* the job sender: jobs sent so far
    dataChan,     \* dataChan: the fileData of the job with that index
    dataClosed,
    cw,           \* the reading workers: [pc, job]
    cur,          \* the fileData the writer loop holds
    done,         \* bytes done
    skipped,      \* the files a worker failed to read
    cCalls,       \* the (done, total) pairs passed to the progress callback
    cFile,        \* the handle os.Create returned: "none", "open", "closed"
    totalSize,    \* the argument of getOptimalCompressionLevel
    compressionLevel, \* its result, <<>> before the call
    archive,      \* the file at the archive path
    archExt,      \* the extension of the archive path
    sidecar,      \* the file at archive path + ".sha256"
    tempFile,     \* the file at archive path + ".tmp"
    shaTable,     \* the contents hashed so far
    \* verification
    tampered,     \* what was changed after creation: "none", "data",
                  \* "structure", "comment", "sidecar", "moved"
    vres,         \* what VerifyChecksum returned
    \* extraction
    xArchive,     \* the entries of the archive, in its physical order
    xpc,          \* where the extract call stands
    xStats,       \* the ExtractStats it returns
    xErr,         \* the error it returns
    xDir,         \* the entry the main routine's loop is at
    xJobChan,     \* jobChan: indexes into xArchive
    xJobClosed,
    xProd,        \* the job sender: the entries it has gone through
    xProdPc,      \* the job sender: "idle", "run", "close", "done"
    errChan,      \* errChan, of capacity 1
    errClosed,
    xw,           \* the extracting workers: [pc, job]
    xDone,        \* bytes done
    destDirs,     \* the directories made by the extraction
    destFiles,    \* the files written by the extraction: [path, data]
    writes,       \* every path created, with the entry it was created for
    reported,     \* the fatal errors reported, in the order of time
    panicked,     \* the process died of a send on a closed channel
    xCalls,       \* the (done, total) pairs passed to the progress callback
    xLock         \* doneMutex: the worker that holds it, 0 when free

createVars == <<tree, cpc, stats, cErr, files, cJobChan, cJobClosed, cProd,
                dataChan, dataClosed, cw, cur, done, skipped, cCalls, cFile,
                totalSize, compressionLevel>>

diskVars == <<archive, archExt, sidecar, tempFile>>

verifyVars == <<tampered, vres>>

extractVars == <<xArchive, xpc, xStats, xErr, xDir, xJobChan, xJobClosed, xProd,
                 xProdPc, errChan, errClosed, xw, xDone, destDirs, destFiles,
                 writes, reported, panicked, xCalls, xLock>>

Workers == 1..workerCount

Formats == {"zip", "gz"}

NoResult == [called |-> FALSE, ok |-> FALSE, stored |-> <<>>, err |-> "nil"]

\* A mutant of ScanDirectory: the directories are counted as files too.
ScanDirectoryCountsDirs(t) ==
    [totalBytes |-> SumSizes(FilesOf(t)), fileCount |-> Cardinality(t),
     checksum |-> <<>>]

\* scanDirectory(root): the sizes and the number of the non-directories.
ScanDirectory(t) ==
    [totalBytes |-> SumSizes(FilesOf(t)), fileCount |-> Cardinality(FilesOf(t)),
     checksum |-> <<>>]

\* The fileJobs of the second filepath.WalkDir, in walk order.
WalkDir(t) == SelectSeq(WalkOrder, LAMBDA p : p \in t)

IsDirJob(p) == p \in SrcDirs

\* The method of a zip entry: header.Method = getCompressionMethod(fd.job.path)
\* for a file; a directory has no data and is stored.
ZipEntryMethod(p) == IF IsDirJob(p) THEN "Store" ELSE GetCompressionMethod(p)

\* Tar.gz: no method is chosen for an entry; the tar writer writes every
\* header and every file's data into the one gzip writer, which deflates
\* them all.
TarEntryMethod(p) == "Deflate"

\* How the bytes of a job's entry are held in the container.
EntryMethod(p, fmt) == IF fmt = "zip" THEN ZipEntryMethod(p) ELSE TarEntryMethod(p)

\* A mutant of EntryOf: the entry is named by the base name of the file.
EntryOfBaseName(p, fmt) ==
    [name |-> [abs |-> FALSE, comps |-> <<p[Len(p)]>>,
               slash |-> (fmt = "zip" /\ IsDirJob(p))],
     isDir |-> IsDirJob(p),
     method |-> EntryMethod(p, fmt),
     data |-> IF IsDirJob(p) THEN <<>> ELSE Content(p)]

\* The entry the sequential writer appends for a job: header.Name is
\* filepath.ToSlash(rel); the zip writer adds "/" to a directory's name, the
\* tar writer does not.
EntryOf(p, fmt) ==
    [name |-> [abs |-> FALSE, comps |-> p, slash |-> (fmt = "zip" /\ IsDirJob(p))],
     isDir |-> IsDirJob(p),
     method |-> EntryMethod(p, fmt),
     data |-> IF IsDirJob(p) THEN <<>> ELSE Content(p)]

InitCreate ==
    /\ cpc = "scan"
    /\ stats = [totalBytes |-> 0, fileCount |-> 0, checksum |-> <<>>]
    /\ cErr = "nil"
    /\ files = <<>>
    /\ cJobChan = <<>>
    /\ cJobClosed = FALSE
    /\ cProd = 0
    /\ dataChan = <<>>
    /\ dataClosed = FALSE
    /\ cw = [w \in Workers |-> [pc |-> "idle", job |-> 0]]
    /\ cur = 0
    /\ done = 0
    /\ skipped = {}
    /\ cCalls = <<>>
    /\ cFile = "none"
    /\ compressionLevel = <<>>
    /\ archive = NoFile
    /\ archExt = IF format = "zip" THEN ".zip" ELSE ".gz"
    /\ sidecar = NoText
    /\ tempFile = NoFile
    /\ shaTable = <<>>

\* ------------------------------------------------------------- creation

\* The goroutines of the pool are running: the workers, the job sender and
\* the goroutine that closes dataChan.
Spawned == /\ cpc \notin {"scan", "create", "walk", "spawn"}
           /\ cErr \notin {"scan", "create", "walk"}

\* stats, err = scanDirectory(srcDir): when the walk fails, the totals of
\* the paths walked so far are returned with the error.
CScan ==
    /\ phase = "create" /\ cpc = "scan"
    /\ \E ok \in BOOLEAN :
         IF ok
         THEN /\ stats' = ScanDirectory(tree)
              /\ cpc' = "create"
              /\ UNCHANGED cErr
         ELSE /\ \E k \in 0..Len(WalkDir(tree)) :
                   stats' = ScanDirectory(Range(SubSeq(WalkDir(tree), 1, k)))
              /\ cErr' = "scan"
              /\ cpc' = "returned"
    /\ UNCHANGED <<tree, files, cJobChan, cJobClosed, cProd, dataChan,
                   dataClosed, cw, cur, done, skipped>>
    /\ UNCHANGED <<diskVars, shaTable, verifyVars>>
    /\ UNCHANGED <<workerCount, format, phase, extractVars>>
    /\ UNCHANGED <<cCalls, cFile, totalSize, compressionLevel>>

\* os.Create(path), the container writer(s) on it with the compression
\* level chosen from stats.TotalBytes, and the first callProgress().
COsCreate ==
    /\ phase = "create" /\ cpc = "create"
    /\ \E ok \in BOOLEAN :
         IF ok
         THEN /\ archive' = [exists |-> TRUE, fmt |-> format, entries |-> <<>>,
                             comment |-> <<>>, sealed |-> FALSE, damaged |-> FALSE]
              /\ cFile' = "open"
              /\ totalSize' = stats.totalBytes
              /\ compressionLevel' = <<GetOptimalCompressionLevel(stats.totalBytes)>>
              /\ cCalls' = Append(cCalls, [done |-> done, total |-> stats.totalBytes])
              /\ cpc' = "walk"
              /\ UNCHANGED cErr
         ELSE /\ cErr' = "create"
              /\ cpc' = "returned"
              /\ UNCHANGED <<archive, cFile, totalSize, compressionLevel, cCalls>>
    /\ UNCHANGED <<tree, stats, files, cJobChan, cJobClosed, cProd,
                   dataChan, dataClosed, cw, cur, done, skipped>>
    /\ UNCHANGED <<archExt, sidecar, tempFile, shaTable, verifyVars>>
    /\ UNCHANGED <<workerCount, format, phase, extractVars>>

\* The second walk, which collects the fileJobs; when it fails the call
\* returns the error.
CWalk ==
    /\ phase = "create" /\ cpc = "walk"
    /\ \E ok \in BOOLEAN :
         IF ok
         THEN /\ files' = WalkDir(tree)
              /\ cpc' = "spawn"
              /\ UNCHANGED cErr
         ELSE /\ \E k \in 0..Len(WalkDir(tree)) :
                   files' = SubSeq(WalkDir(tree), 1, k)
              /\ cErr' = "walk"
              /\ cpc' = "returned"
    /\ UNCHANGED <<tree, stats, cJobChan, cJobClosed, cProd, dataChan,
                   dataClosed, cw, cur, done, skipped>>
    /\ UNCHANGED <<diskVars, shaTable, verifyVars>>
    /\ UNCHANGED <<workerCount, format, phase, extractVars>>
    /\ UNCHANGED <<cCalls, cFile, totalSize, compressionLevel>>

\* The go statements: workerCount workers, the job sender, the closer.
CSpawn ==
    /\ phase = "create" /\ cpc = "spawn"
    /\ cw' = [w \in Workers |-> [pc |-> "recv", job |-> 0]]
    /\ cpc' = "drain"
    /\ UNCHANGED <<tree, stats, cErr, files, cJobChan, cJobClosed, cProd,
                   dataChan, dataClosed, cur, done, skipped>>
    /\ UNCHANGED <<diskVars, shaTable, verifyVars>>
    /\ UNCHANGED <<workerCount, format, phase, extractVars>>
    /\ UNCHANGED <<cCalls, cFile, totalSize, compressionLevel>>

\* jobChan <- file: jobChan has room for every job, the send never blocks.
CSendJob ==
    /\ Spawned /\ cProd < Len(files)
    /\ cJobChan' = Append(cJobChan, cProd + 1)
    /\ cProd' = cProd + 1
    /\ UNCHANGED <<tree, cpc, stats, cErr, files, cJobClosed, dataChan,
                   dataClosed, cw, cur, done, skipped>>
    /\ UNCHANGED <<diskVars, shaTable, verifyVars>>
    /\ UNCHANGED <<workerCount, format, phase, extractVars>>
    /\ UNCHANGED <<cCalls, cFile, totalSize, compressionLevel>>

\* close(jobChan), after the last job.
CCloseJobs ==
    /\ Spawned /\ cProd = Len(files) /\ ~cJobClosed
    /\ cJobClosed' = TRUE
    /\ UNCHANGED <<tree, cpc, stats, cErr, files, cJobChan, cProd, dataChan,
                   dataClosed, cw, cur, done, skipped>>
    /\ UNCHANGED <<diskVars, shaTable, verifyVars>>
    /\ UNCHANGED <<workerCount, format, phase, extractVars>>
    /\ UNCHANGED <<cCalls, cFile, totalSize, compressionLevel>>

\* A mutant of CRecvJob: the job received stays in jobChan.
CRecvJobKeepsJob(w) ==
    /\ cw[w].pc = "recv"
    /\ cJobChan # <<>> \/ cJobClosed
    /\ IF cJobChan # <<>>
       THEN /\ cJobChan' = cJobChan
            /\ cw' = [cw EXCEPT ![w] =
                        [pc |-> IF IsDirJob(files[Head(cJobChan)])
                                THEN "send" ELSE "read",
                         job |-> Head(cJobChan)]]
       ELSE /\ cw' = [cw EXCEPT ![w] = [pc |-> "exit", job |-> 0]]
            /\ UNCHANGED cJobChan
    /\ UNCHANGED <<tree, cpc, stats, cErr, files, cJobClosed, cProd, dataChan,
                   dataClosed, cur, done, skipped>>
    /\ UNCHANGED <<diskVars, shaTable, verifyVars>>
    /\ UNCHANGED <<workerCount, format, phase, extractVars>>
    /\ UNCHANGED <<cCalls, cFile, totalSize, compressionLevel>>

\* A worker's "for job := range jobChan": it takes the next job, a directory
\* goes straight to the send; it leaves the loop once jobChan is closed and
\* empty.
CRecvJob(w) ==
    /\ cw[w].pc = "recv"
    /\ cJobChan # <<>> \/ cJobClosed
    /\ IF cJobChan # <<>>
       THEN /\ cJobChan' = Tail(cJobChan)
            /\ cw' = [cw EXCEPT ![w] =
                        [pc |-> IF IsDirJob(files[Head(cJobChan)])
                                THEN "send" ELSE "read",
                         job |-> Head(cJobChan)]]
       ELSE /\ cw' = [cw EXCEPT ![w] = [pc |-> "exit", job |-> 0]]
            /\ UNCHANGED cJobChan
    /\ UNCHANGED <<tree, cpc, stats, cErr, files, cJobClosed, cProd, dataChan,
                   dataClosed, cur, done, skipped>>
    /\ UNCHANGED <<diskVars, shaTable, verifyVars>>
    /\ UNCHANGED <<workerCount, format, phase, extractVars>>
    /\ UNCHANGED <<cCalls, cFile, totalSize, compressionLevel>>

\* A mutant of CReadFile: a read failure aborts the creation.
CReadFileAborts(w) ==
    /\ cw[w].pc = "read"
    /\ \E ok \in BOOLEAN :
         IF ok
         THEN /\ cw' = [cw EXCEPT ![w].pc = "send"]
              /\ UNCHANGED <<skipped, cErr, cpc>>
         ELSE /\ cw' = [cw EXCEPT ![w] = [pc |-> "exit", job |-> 0]]
              /\ skipped' = skipped \cup {files[cw[w].job]}
              /\ cErr' = "read"
              /\ cpc' = "returned"
    /\ UNCHANGED <<tree, stats, files, cJobChan, cJobClosed, cProd,
                   dataChan, dataClosed, cur, done>>
    /\ UNCHANGED <<diskVars, shaTable, verifyVars>>
    /\ UNCHANGED <<workerCount, format, phase, extractVars>>
    /\ UNCHANGED <<cCalls, cFile, totalSize, compressionLevel>>

\* data, err := os.ReadFile(job.path): on an error the worker warns and goes
\* on with the next job.
CReadFile(w) ==
    /\ cw[w].pc = "read"
    /\ \E ok \in BOOLEAN :
         IF ok
         THEN /\ cw' = [cw EXCEPT ![w].pc = "send"]
              /\ UNCHANGED skipped
         ELSE /\ cw' = [cw EXCEPT ![w] = [pc |-> "recv", job |-> 0]]
              /\ skipped' = skipped \cup {files[cw[w].job]}
    /\ UNCHANGED <<tree, cpc, stats, cErr, files, cJobChan, cJobClosed, cProd,
                   dataChan, dataClosed, cur, done>>
    /\ UNCHANGED <<diskVars, shaTable, verifyVars>>
    /\ UNCHANGED <<workerCount, format, phase, extractVars>>
    /\ UNCHANGED <<cCalls, cFile, totalSize, compressionLevel>>

\* A mutant of CSendData: dataChan takes a result whatever it holds.
CSendDataUnbounded(w) ==
    /\ cw[w].pc = "send"
    /\ dataChan' = Append(dataChan, cw[w].job)
    /\ cw' = [cw EXCEPT ![w] = [pc |-> "recv", job |-> 0]]
    /\ UNCHANGED <<tree, cpc, stats, cErr, files, cJobChan, cJobClosed, cProd,
                   dataClosed, cur, done, skipped>>
    /\ UNCHANGED <<diskVars, shaTable, verifyVars>>
    /\ UNCHANGED <<workerCount, format, phase, extractVars>>
    /\ UNCHANGED <<cCalls, cFile, totalSize, compressionLevel>>

\* A mutant of CSendData: the worker writes the entry into the archive
\* itself.
CSendDataWritesEntry(w) ==
    /\ cw[w].pc = "send"
    /\ Len(dataChan) < workerCount
    /\ archive' = [archive EXCEPT !.entries = Append(@, EntryOf(files[cw[w].job], format))]
    /\ cw' = [cw EXCEPT ![w] = [pc |-> "recv", job |-> 0]]
    /\ UNCHANGED <<tree, cpc, stats, cErr, files, cJobChan, cJobClosed, cProd,
                   dataChan, dataClosed, cur, done, skipped>>
    /\ UNCHANGED <<archExt, sidecar, tempFile, shaTable, verifyVars>>
    /\ UNCHANGED <<workerCount, format, phase, extractVars>>
    /\ UNCHANGED <<cCalls, cFile, totalSize, compressionLevel>>

\* dataChan <- fileData{...}: blocks while dataChan holds workerCount results.
CSendData(w) ==
    /\ cw[w].pc = "send"
    /\ Len(dataChan) < workerCount
    /\ dataChan' = Append(dataChan, cw[w].job)
    /\ cw' = [cw EXCEPT ![w] = [pc |-> "recv", job |-> 0]]
    /\ UNCHANGED <<tree, cpc, stats, cErr, files, cJobChan, cJobClosed, cProd,
                   dataClosed, cur, done, skipped>>
    /\ UNCHANGED <<diskVars, shaTable, verifyVars>>
    /\ UNCHANGED <<workerCount, format, phase, extractVars>>
    /\ UNCHANGED <<cCalls, cFile, totalSize, compressionLevel>>

\* wg.Wait(); close(dataChan)
CCloseData ==
    /\ Spawned /\ ~dataClosed
    /\ \A w \in Workers : cw[w].pc = "exit"
    /\ dataClosed' = TRUE
    /\ UNCHANGED <<tree, cpc, stats, cErr, files, cJobChan, cJobClosed, cProd,
                   dataChan, cw, cur, done, skipped>>
    /\ UNCHANGED <<diskVars, shaTable, verifyVars>>
    /\ UNCHANGED <<workerCount, format, phase, extractVars>>
    /\ UNCHANGED <<cCalls, cFile, totalSize, compressionLevel>>

\* A mutant of CDrain: the writer takes the result that arrived last.
CDrainTakesLast ==
    /\ phase = "create" /\ cpc = "drain"
    /\ dataChan # <<>> \/ dataClosed
    /\ IF dataChan # <<>>
       THEN /\ cur' = dataChan[Len(dataChan)]
            /\ dataChan' = SubSeq(dataChan, 1, Len(dataChan) - 1)
            /\ cpc' = "entry"
            /\ UNCHANGED cCalls
       ELSE /\ cpc' = "finish"
            /\ cCalls' = Append(cCalls, [done |-> done, total |-> stats.totalBytes])
            /\ UNCHANGED <<cur, dataChan>>
    /\ UNCHANGED <<tree, stats, cErr, files, cJobChan, cJobClosed, cProd,
                   dataClosed, cw, done, skipped>>
    /\ UNCHANGED <<diskVars, shaTable, verifyVars>>
    /\ UNCHANGED <<workerCount, format, phase, extractVars>>
    /\ UNCHANGED <<cFile, totalSize, compressionLevel>>

\* The writer's "for fd := range dataChan", and the callProgress() that
\* follows the loop.
CDrain ==
    /\ phase = "create" /\ cpc = "drain"
    /\ dataChan # <<>> \/ dataClosed
    /\ IF dataChan # <<>>
       THEN /\ cur' = Head(dataChan)
            /\ dataChan' = Tail(dataChan)
            /\ cpc' = "entry"
            /\ UNCHANGED cCalls
       ELSE /\ cpc' = "finish"
            /\ cCalls' = Append(cCalls, [done |-> done, total |-> stats.totalBytes])
            /\ UNCHANGED <<cur, dataChan>>
    /\ UNCHANGED <<tree, stats, cErr, files, cJobChan, cJobClosed, cProd,
                   dataClosed, cw, done, skipped>>
    /\ UNCHANGED <<diskVars, shaTable, verifyVars>>
    /\ UNCHANGED <<workerCount, format, phase, extractVars>>
    /\ UNCHANGED <<cFile, totalSize, compressionLevel>>

\* A mutant of CWriteEntry: the callback is passed the bytes of the file
\* written, not the bytes done so far.
CWriteEntryPerFileBytes ==
    /\ phase = "create" /\ cpc = "entry"
    /\ \E ok \in BOOLEAN :
         IF ok
         THEN LET e == EntryOf(files[cur], format) IN
              /\ archive' = [archive EXCEPT !.entries = Append(@, e)]
              /\ done' = done + Len(e.data)
              /\ cCalls' = IF e.isDir THEN cCalls
                           ELSE Append(cCalls, [done |-> Len(e.data),
                                                total |-> stats.totalBytes])
              /\ cpc' = "drain"
              /\ UNCHANGED cErr
         ELSE /\ cErr' = "write"
              /\ cpc' = "returned"
              /\ UNCHANGED <<archive, done, cCalls>>
    /\ cur' = 0
    /\ UNCHANGED <<tree, stats, files, cJobChan, cJobClosed, cProd, dataChan,
                   dataClosed, cw, skipped>>
    /\ UNCHANGED <<archExt, sidecar, tempFile, shaTable, verifyVars>>
    /\ UNCHANGED <<workerCount, format, phase, extractVars>>
    /\ UNCHANGED <<cFile, totalSize, compressionLevel>>

\* The body of the writer loop: the header, the entry, its data, the bytes
\* done (under doneMutex) and, for a file, callProgress(); a failure of the
\* header, the entry or the data returns the error at once.
CWriteEntry ==
    /\ phase = "create" /\ cpc = "entry"
    /\ \E ok \in BOOLEAN :
         IF ok
         THEN LET e == EntryOf(files[cur], format) IN
              /\ archive' = [archive EXCEPT !.entries = Append(@, e)]
              /\ done' = done + Len(e.data)
              /\ cCalls' = IF e.isDir THEN cCalls
                           ELSE Append(cCalls, [done |-> done + Len(e.data),
                                                total |-> stats.totalBytes])
              /\ cpc' = "drain"
              /\ UNCHANGED cErr
         ELSE /\ cErr' = "write"
              /\ cpc' = "returned"
              /\ UNCHANGED <<archive, done, cCalls>>
    /\ cur' = 0
    /\ UNCHANGED <<tree, stats, files, cJobChan, cJobClosed, cProd, dataChan,
                   dataClosed, cw, skipped>>
    /\ UNCHANGED <<archExt, sidecar, tempFile, shaTable, verifyVars>>
    /\ UNCHANGED <<workerCount, format, phase, extractVars>>
    /\ UNCHANGED <<cFile, totalSize, compressionLevel>>

\* A mutant of CCloseArchive: the errors of the closes are not looked at.
CCloseArchiveIgnoresError ==
    /\ phase = "create" /\ cpc = "finish"
    /\ \E out \in {"ok", "writer", "file"} :
         /\ archive' = [archive EXCEPT !.sealed = (out # "writer")]
         /\ cFile' = IF out = "ok" THEN "closed" ELSE cFile
         /\ cErr' = cErr
         /\ cpc' = "sum"
    /\ UNCHANGED <<tree, stats, files, cJobChan, cJobClosed, cProd,
                   dataChan, dataClosed, cw, cur, done, skipped>>
    /\ UNCHANGED <<archExt, sidecar, tempFile, shaTable, verifyVars>>
    /\ UNCHANGED <<workerCount, format, phase, extractVars>>
    /\ UNCHANGED <<cCalls, totalSize, compressionLevel>>

\* writer.Close() (tarWriter.Close(), gzWriter.Close()) and then
\* file.Close(): out is the close that fails, or "ok".  The container's end
\* (the zip directory, the tar and gzip trailers) is written by the writer's
\* Close; the first failure returns the error, the closes after it not made.
CCloseArchive ==
    /\ phase = "create" /\ cpc = "finish"
    /\ \E out \in {"ok", "writer", "file"} :
         /\ archive' = [archive EXCEPT !.sealed = (out # "writer")]
         /\ cFile' = IF out = "ok" THEN "closed" ELSE cFile
         /\ cErr' = IF out = "ok" THEN cErr ELSE "close"
         /\ cpc' = IF out = "ok" THEN "sum" ELSE "returned"
    /\ UNCHANGED <<tree, stats, files, cJobChan, cJobClosed, cProd,
                   dataChan, dataClosed, cw, cur, done, skipped>>
    /\ UNCHANGED <<archExt, sidecar, tempFile, shaTable, verifyVars>>
    /\ UNCHANGED <<workerCount, format, phase, extractVars>>
    /\ UNCHANGED <<cCalls, totalSize, compressionLevel>>

\* stats.Checksum, err = calculateFileChecksum(path)
CChecksum ==
    /\ phase = "create" /\ cpc = "sum"
    /\ stats' = [stats EXCEPT !.checksum = CalculateFileChecksum(shaTable, archive).sum]
    /\ shaTable' = ShaTableAfter(shaTable, BytesOf(archive))
    /\ cpc' = "persist"
    /\ UNCHANGED <<tree, cErr, files, cJobChan, cJobClosed, cProd, dataChan,
                   dataClosed, cw, cur, done, skipped>>
    /\ UNCHANGED <<diskVars, verifyVars>>
    /\ UNCHANGED <<workerCount, format, phase, extractVars>>
    /\ UNCHANGED <<cCalls, cFile, totalSize, compressionLevel>>

\* addChecksumToZip(zipPath, checksum): the archive is rewritten, entry by
\* entry, with the comment "SHA256: <checksum>".
AddChecksumToZip(file, checksum) ==
    [file EXCEPT !.comment = ChecksumPrefix \o checksum]

\* A mutant of WriteChecksumFile: the two fields written in the other order.
WriteChecksumFileSwapped(checksum) ==
    [exists |-> TRUE, text |-> <<"*">> \o BaseName \o <<" ">> \o checksum \o <<"\n">>]

\* writeChecksumFile(archivePath, checksum)
WriteChecksumFile(checksum) ==
    [exists |-> TRUE, text |-> ChecksumFileText(checksum)]

\* if err := addChecksumToZip(zipPath, stats.Checksum), up to the writer on
\* the temporary file: zip.OpenReader(zipPath), then os.Create(tempPath);
\* out is the call that fails, or "ok".  A failure returns the error with
\* nothing changed.  Tar.gz: writeChecksumFile, and the call returns.
CPersist ==
    /\ phase = "create" /\ cpc = "persist"
    /\ IF format = "zip"
       THEN \E out \in {"ok", "open", "temp"} :
              IF out = "ok"
              THEN /\ tempFile' = [NoFile EXCEPT !.exists = TRUE, !.fmt = "zip"]
                   /\ cpc' = "copy"
                   /\ UNCHANGED cErr
              ELSE /\ cErr' = "add"
                   /\ cpc' = "returned"
                   /\ UNCHANGED tempFile
       ELSE /\ cpc' = "returned"
            /\ UNCHANGED <<cErr, tempFile>>
    /\ sidecar' = IF format = "zip" THEN sidecar ELSE WriteChecksumFile(stats.checksum)
    /\ UNCHANGED <<tree, stats, files, cJobChan, cJobClosed, cProd,
                   dataChan, dataClosed, cw, cur, done, skipped>>
    /\ UNCHANGED <<archive, archExt, shaTable, verifyVars>>
    /\ UNCHANGED <<workerCount, format, phase, extractVars>>
    /\ UNCHANGED <<cCalls, cFile, totalSize, compressionLevel>>

\* What a failed rewrite leaves at the temporary path when the os.Remove
\* of the cleanup fails too (its error is not looked at): the entries
\* copied before the failure; the directory and the comment are there when
\* w.Close() has written them (closed), as it may after a failed copy, whose
\* branch calls it without a look at its error.
TempLeft(out, k, closed) ==
    IF out = "copy"
    THEN [tempFile EXCEPT !.entries = SubSeq(archive.entries, 1, k),
                          !.comment = IF closed THEN ChecksumPrefix \o stats.checksum
                                      ELSE <<>>,
                          !.sealed = closed]
    ELSE IF out = "writer"
    THEN [tempFile EXCEPT !.entries = archive.entries]
    ELSE AddChecksumToZip(archive, stats.checksum)

\* addChecksumToZip, the rewrite: w.SetComment, copyZipFile for every entry
\* of the reader, r.Close(), w.Close(), tempFile.Close(); out is the step
\* that fails ("copy": the copy of entry k + 1), or "ok".  A failure closes
\* what is open, calls os.Remove(tempPath) and returns the error.
CCopyZipFiles ==
    /\ phase = "create" /\ cpc = "copy"
    /\ \E out \in {"ok", "copy", "writer", "file"} :
         IF out = "ok"
         THEN /\ tempFile' = AddChecksumToZip(archive, stats.checksum)
              /\ cpc' = "remove"
              /\ UNCHANGED cErr
         ELSE /\ out = "copy" => archive.entries # <<>>
              /\ \E removed \in BOOLEAN :
                   IF removed
                   THEN tempFile' = NoFile
                   ELSE \E k \in 0..Len(archive.entries), closed \in BOOLEAN :
                          /\ k < Len(archive.entries) \/ out # "copy"
                          /\ (k = 0 /\ closed) \/ out = "copy"
                          /\ tempFile' = TempLeft(out, k, closed)
              /\ cErr' = "add"
              /\ cpc' = "returned"
    /\ UNCHANGED <<tree, stats, files, cJobChan, cJobClosed, cProd,
                   dataChan, dataClosed, cw, cur, done, skipped>>
    /\ UNCHANGED <<archive, archExt, sidecar, shaTable, verifyVars>>
    /\ UNCHANGED <<workerCount, format, phase, extractVars>>
    /\ UNCHANGED <<cCalls, cFile, totalSize, compressionLevel>>

\* if err := os.Remove(zipPath); err != nil { return err }: the original
\* is removed; on a failure the error is returned and the temporary file
\* stays.
COsRemove ==
    /\ phase = "create" /\ cpc = "remove"
    /\ \E ok \in BOOLEAN :
         IF ok
         THEN /\ archive' = NoFile
              /\ cpc' = "rename"
              /\ UNCHANGED cErr
         ELSE /\ cErr' = "add"
              /\ cpc' = "returned"
              /\ UNCHANGED archive
    /\ UNCHANGED <<tree, stats, files, cJobChan, cJobClosed, cProd,
                   dataChan, dataClosed, cw, cur, done, skipped>>
    /\ UNCHANGED <<archExt, sidecar, tempFile, shaTable, verifyVars>>
    /\ UNCHANGED <<workerCount, format, phase, extractVars>>
    /\ UNCHANGED <<cCalls, cFile, totalSize, compressionLevel>>

\* return os.Rename(tempPath, zipPath): the rewritten file takes the
\* archive path; on a failure the error is returned, both files as they
\* were.  Then ZipWithProgressAndFile returns.
COsRename ==
    /\ phase = "create" /\ cpc = "rename"
    /\ \E ok \in BOOLEAN :
         IF ok
         THEN /\ archive' = tempFile
              /\ tempFile' = NoFile
              /\ UNCHANGED cErr
         ELSE /\ cErr' = "add"
              /\ UNCHANGED <<archive, tempFile>>
    /\ cpc' = "returned"
    /\ UNCHANGED <<tree, stats, files, cJobChan, cJobClosed, cProd,
                   dataChan, dataClosed, cw, cur, done, skipped>>
    /\ UNCHANGED <<archExt, sidecar, shaTable, verifyVars>>
    /\ UNCHANGED <<workerCount, format, phase, extractVars>>
    /\ UNCHANGED <<cCalls, cFile, totalSize, compressionLevel>>

CreateNext ==
    \/ CScan \/ COsCreate \/ CWalk \/ CSpawn
    \/ CSendJob \/ CCloseJobs
    \/ \E w \in Workers : CRecvJob(w)
    \/ \E w \in Workers : CReadFile(w)
    \/ \E w \in Workers : CSendData(w)
    \/ CCloseData
    \/ CDrain \/ CWriteEntry \/ CCloseArchive \/ CChecksum \/ CPersist
    \/ CCopyZipFiles \/ COsRemove \/ COsRename

\* The create call returned success.
Created == cpc = "returned" /\ cErr = "nil"

\* ------------------------------------------------- after creation: the
\* environment may change one byte of the archive or of its sidecar, remove
\* or empty the sidecar, remove or rename the archive; then it verifies.

CanTamper == phase = "create" /\ Created /\ tampered = "none" /\ ~vres.called

TamperFrame == UNCHANGED <<createVars, shaTable, vres, extractVars>>

\* Another value for a byte of an entry's data.
FlipByte(b) == (b + 1) % 256

\* Another character for a character of a text.
FlipChar(c) == IF c = "0" THEN "1" ELSE "0"

\* One byte of the data of entry i is changed.
FlipData ==
    /\ CanTamper
    /\ \E i \in 1..Len(archive.entries) :
         \E j \in 1..Len(archive.entries[i].data) :
            archive' = [archive EXCEPT !.entries[i].data[j] = FlipByte(@)]
    /\ tampered' = "data" /\ phase' = "verify"
    /\ UNCHANGED <<archExt, sidecar, tempFile, workerCount, format>>
    /\ TamperFrame

\* One byte of the container's structure (zip: the central directory or the
\* end record) is changed.
FlipStructure ==
    /\ CanTamper
    /\ archive' = [archive EXCEPT !.damaged = TRUE]
    /\ tampered' = "structure" /\ phase' = "verify"
    /\ UNCHANGED <<archExt, sidecar, tempFile, workerCount, format>>
    /\ TamperFrame

\* One character of the zip comment is changed.
FlipComment ==
    /\ CanTamper
    /\ \E k \in 1..Len(archive.comment) :
         archive' = [archive EXCEPT !.comment[k] = FlipChar(@)]
    /\ tampered' = "comment" /\ phase' = "verify"
    /\ UNCHANGED <<archExt, sidecar, tempFile, workerCount, format>>
    /\ TamperFrame

\* The sidecar is changed in one character, emptied or removed.
ChangeSidecar ==
    /\ CanTamper /\ sidecar.exists
    /\ \/ \E k \in 1..Len(sidecar.text) :
            sidecar' = [sidecar EXCEPT !.text[k] = FlipChar(@)]
       \/ sidecar' = [sidecar EXCEPT !.text = <<>>]
       \/ sidecar' = [sidecar EXCEPT !.text = <<"\n">>]
       \/ sidecar' = NoText
    /\ tampered' = "sidecar" /\ phase' = "verify"
    /\ UNCHANGED <<archive, archExt, tempFile, workerCount, format>>
    /\ TamperFrame

\* The archive is removed, or renamed to a path with another extension.
MoveArchive ==
    /\ CanTamper
    /\ \/ archive' = NoFile /\ UNCHANGED archExt
       \/ archExt' \in {".zip", ".ZIP", ".gz", ".dat"} \ {archExt} /\ UNCHANGED archive
    /\ tampered' = "moved" /\ phase' = "verify"
    /\ UNCHANGED <<sidecar, tempFile, workerCount, format>>
    /\ TamperFrame

\* A mutant of Verify: the sidecar is written anew with the digest found.
VerifyRewritesSidecar ==
    /\ phase \in {"create", "verify"} /\ Created /\ ~vres.called
    /\ LET r == VerifyChecksum(archExt, archive, sidecar, shaTable) IN
         /\ vres' = [called |-> TRUE, ok |-> r.ok, stored |-> r.stored, err |-> r.err]
         /\ shaTable' = IF r.err = "nil"
                        THEN ShaTableAfter(shaTable, BytesOf(archive))
                        ELSE shaTable
    /\ phase' = "verify"
    /\ sidecar' = WriteChecksumFile(
                      CalculateFileChecksum(shaTable, archive).sum)
    /\ UNCHANGED <<createVars, archive, archExt, tempFile, tampered, workerCount, format,
                   extractVars>>

\* VerifyChecksum(archivePath) is called.
Verify ==
    /\ phase \in {"create", "verify"} /\ Created /\ ~vres.called
    /\ LET r == VerifyChecksum(archExt, archive, sidecar, shaTable) IN
         /\ vres' = [called |-> TRUE, ok |-> r.ok, stored |-> r.stored, err |-> r.err]
         /\ shaTable' = IF r.err = "nil"
                        THEN ShaTableAfter(shaTable, BytesOf(archive))
                        ELSE shaTable
    /\ phase' = "verify"
    /\ UNCHANGED <<createVars, diskVars, tampered, workerCount, format, extractVars>>

VerifyNext ==
    \/ FlipData \/ FlipStructure \/ FlipComment \/ ChangeSidecar \/ MoveArchive
    \/ Verify

\* ------------------------------------------------------------ extraction

NoErr == [kind |-> "nil", entry |-> 0]

\* A mutant of TrySend: a later error takes the place of the one waiting.
TrySendOverwrite(ch, e) == <<e>>

\* select { case errChan <- e: default: } on the channel of capacity 1.
TrySend(ch, e) == IF Len(ch) < 1 THEN Append(ch, e) ELSE ch

\* A goroutine reports the fatal error e; a send on the closed channel
\* panics (also inside a select with a default case).
Report(e) ==
    IF errClosed
    THEN /\ panicked' = TRUE
         /\ UNCHANGED <<errChan, reported>>
    ELSE /\ errChan' = TrySend(errChan, e)
         /\ reported' = Append(reported, e)
         /\ UNCHANGED panicked

NoReport == UNCHANGED <<errChan, reported, panicked>>

\* The main routine returns e itself.
ReturnErr(e) ==
    /\ xErr' = e
    /\ xpc' = "returned"
    /\ reported' = Append(reported, e)
    /\ UNCHANGED <<errChan, panicked>>

FilePaths == { r.path : r \in destFiles }

\* os.MkdirAll(p) can succeed: no file stands in the way.
CanMkdirAll(p) == Ancestors(p) \cap FilePaths = {}

\* os.OpenFile(p, O_WRONLY|O_CREATE|O_TRUNC) can succeed: its directory
\* exists and p is no directory.
CanOpenFile(p) == p \notin destDirs /\ (Dir(p) = <<>> \/ Dir(p) \in destDirs)

WriteFile(fs, p, d) == { r \in fs : r.path # p } \cup { [path |-> p, data |-> d] }

RECURSIVE SumData(_)
SumData(es) == IF es = <<>> THEN 0
               ELSE (IF Head(es).isDir THEN 0 ELSE Len(Head(es).data))
                    + SumData(Tail(es))

\* A mutant of ExtractTotals: the directory entries are counted too.
ExtractTotalsCountsDirs(es) ==
    [totalBytes |-> SumData(es), fileCount |-> Len(es)]

\* The totals ExtractWithProgress and ExtractGzipWithProgress compute from
\* the archive before extracting: over the entries that are no directories.
ExtractTotals(es) ==
    [totalBytes |-> SumData(es),
     fileCount |-> Cardinality({ i \in 1..Len(es) : ~es[i].isDir })]

XWorkers == DOMAIN xw

XFrame == UNCHANGED <<workerCount, format, phase, createVars, diskVars,
                      shaTable, verifyVars, xArchive>>

Running == phase = "extract" /\ ~panicked

\* A mutant of XOpen: the first callProgress() is left out.
XOpenNoCallback ==
    /\ Running /\ xpc = "open"
    /\ xStats' = ExtractTotals(xArchive)
    /\ UNCHANGED xCalls
    /\ xDir' = 1
    /\ xpc' = IF format = "zip" THEN "mkdirs" ELSE "tar"
    /\ UNCHANGED <<xErr, xJobChan, xJobClosed, xProd, xProdPc, errChan,
                   errClosed, xw, xDone, destDirs, destFiles, writes, reported,
                   panicked>>
    /\ UNCHANGED xLock
    /\ XFrame

\* zip.OpenReader and the totals; tar: the first pass over the headers.
\* Then the first callProgress().
XOpen ==
    /\ Running /\ xpc = "open"
    /\ xStats' = ExtractTotals(xArchive)
    /\ xCalls' = Append(xCalls, [done |-> xDone,
                                 total |-> ExtractTotals(xArchive).totalBytes])
    /\ xDir' = 1
    /\ xpc' = IF format = "zip" THEN "mkdirs" ELSE "tar"
    /\ UNCHANGED <<xErr, xJobChan, xJobClosed, xProd, xProdPc, errChan,
                   errClosed, xw, xDone, destDirs, destFiles, writes, reported,
                   panicked>>
    /\ UNCHANGED xLock
    /\ XFrame

\* A mutant of XMkdir: the directories are left to be made with the files.
XMkdirLeftOut(ok) ==
    LET e == xArchive[xDir]
    IN  IF e.isDir /\ ~IsLocal(e.name)
        THEN /\ ReturnErr([kind |-> "path", entry |-> xDir])
             /\ UNCHANGED <<xDir, destDirs, writes>>
        ELSE /\ xDir' = xDir + 1
             /\ UNCHANGED <<xpc, xErr, destDirs, writes, reported, errChan, panicked>>

\* A mutant of XMkdir: the directory is made before its name is checked.
XMkdirThenCheck(ok) ==
    LET e == xArchive[xDir]
        p == JoinDest(e.name)
    IN  IF ~e.isDir
        THEN /\ xDir' = xDir + 1
             /\ UNCHANGED <<xpc, xErr, destDirs, writes, reported, errChan, panicked>>
        ELSE /\ destDirs' = destDirs \cup Ancestors(p)
             /\ writes' = writes \cup { <<xDir, q>> : q \in Ancestors(p) }
             /\ IF ~IsLocal(e.name)
                THEN ReturnErr([kind |-> "path", entry |-> xDir]) /\ UNCHANGED xDir
                ELSE /\ xDir' = xDir + 1
                     /\ UNCHANGED <<xpc, xErr, reported, errChan, panicked>>

\* One turn of "Create directories first": the name of a directory entry is
\* checked, then os.MkdirAll(destPath) is called (ok: it succeeds).
XMkdir(ok) ==
    LET e == xArchive[xDir]
        p == JoinDest(e.name)
    IN  IF ~e.isDir
        THEN /\ xDir' = xDir + 1
             /\ UNCHANGED <<xpc, xErr, destDirs, writes, reported, errChan, panicked>>
        ELSE IF ~IsLocal(e.name)
        THEN /\ ReturnErr([kind |-> "path", entry |-> xDir])
             /\ UNCHANGED <<xDir, destDirs, writes>>
        ELSE IF ok /\ CanMkdirAll(p)
        THEN /\ destDirs' = destDirs \cup Ancestors(p)
             /\ writes' = writes \cup { <<xDir, q>> : q \in Ancestors(p) }
             /\ xDir' = xDir + 1
             /\ UNCHANGED <<xpc, xErr, reported, errChan, panicked>>
        ELSE /\ ReturnErr([kind |-> "mkdir", entry |-> xDir])
             /\ UNCHANGED <<xDir, destDirs, writes>>

XMkdirs ==
    /\ Running /\ xpc = "mkdirs" /\ xDir <= Len(xArchive)
    /\ \E ok \in BOOLEAN : XMkdir(ok)
    /\ UNCHANGED <<xStats, xJobChan, xJobClosed, xProd, xProdPc, errClosed, xw,
                   xDone, destFiles>>
    /\ UNCHANGED <<xCalls, xLock>>
    /\ XFrame

\* The go statements: the workers and the job sender.
XSpawn ==
    /\ Running /\ xpc = "mkdirs" /\ xDir > Len(xArchive)
    /\ xw' = [w \in XWorkers |-> [pc |-> "recv", job |-> 0]]
    /\ xProdPc' = "run"
    /\ xpc' = "wait"
    /\ UNCHANGED <<xStats, xErr, xDir, xJobChan, xJobClosed, xProd, errChan,
                   errClosed, xDone, destDirs, destFiles, writes, reported,
                   panicked>>
    /\ UNCHANGED <<xCalls, xLock>>
    /\ XFrame

\* One turn of the job sender's loop over reader.File: a directory is passed
\* over; a name that is not local is reported and ends the loop; else the
\* parent directory is made (ok: it succeeds) and the job is sent, jobChan
\* having room for every entry.
XSendJob(ok) ==
    LET i == xProd + 1
        e == xArchive[i]
        p == JoinDest(e.name)
    IN  IF e.isDir
        THEN /\ xProd' = i
             /\ NoReport
             /\ UNCHANGED <<xProdPc, xJobChan, destDirs, writes>>
        ELSE IF ~IsLocal(e.name)
        THEN /\ Report([kind |-> "path", entry |-> i])
             /\ xProdPc' = "close"
             /\ UNCHANGED <<xProd, xJobChan, destDirs, writes>>
        ELSE IF ok /\ CanMkdirAll(Dir(p))
        THEN /\ destDirs' = destDirs \cup Ancestors(Dir(p))
             /\ writes' = writes \cup { <<i, q>> : q \in Ancestors(Dir(p)) }
             /\ xJobChan' = Append(xJobChan, i)
             /\ xProd' = i
             /\ NoReport
             /\ UNCHANGED xProdPc
        ELSE /\ Report([kind |-> "mkdir", entry |-> i])
             /\ xProdPc' = "close"
             /\ UNCHANGED <<xProd, xJobChan, destDirs, writes>>

XSendJobs ==
    /\ Running /\ xProdPc = "run" /\ xProd < Len(xArchive)
    /\ \E ok \in BOOLEAN : XSendJob(ok)
    /\ UNCHANGED <<xpc, xStats, xErr, xDir, xJobClosed, errClosed, xw, xDone,
                   destFiles>>
    /\ UNCHANGED <<xCalls, xLock>>
    /\ XFrame

\* close(jobChan): after the last entry, or after the break.
XCloseJobs ==
    /\ Running
    /\ xProdPc = "close" \/ (xProdPc = "run" /\ xProd = Len(xArchive))
    /\ xJobClosed' = TRUE
    /\ xProdPc' = "done"
    /\ UNCHANGED <<xpc, xStats, xErr, xDir, xJobChan, xProd, errChan, errClosed,
                   xw, xDone, destDirs, destFiles, writes, reported, panicked>>
    /\ UNCHANGED <<xCalls, xLock>>
    /\ XFrame

\* A worker's "for job := range jobChan".
XRecvJob(w) ==
    /\ Running /\ xw[w].pc = "recv"
    /\ xJobChan # <<>> \/ xJobClosed
    /\ IF xJobChan # <<>>
       THEN /\ xJobChan' = Tail(xJobChan)
            /\ xw' = [xw EXCEPT ![w] = [pc |-> "open", job |-> Head(xJobChan)]]
       ELSE /\ xw' = [xw EXCEPT ![w] = [pc |-> "exit", job |-> 0]]
            /\ UNCHANGED xJobChan
    /\ UNCHANGED <<xpc, xStats, xErr, xDir, xJobClosed, xProd, xProdPc, errChan,
                   errClosed, xDone, destDirs, destFiles, writes, reported,
                   panicked>>
    /\ UNCHANGED <<xCalls, xLock>>
    /\ XFrame

\* rc, err := job.file.Open(): on an error the worker reports it and returns.
XOpenEntry(w) ==
    /\ Running /\ xw[w].pc = "open"
    /\ \E ok \in BOOLEAN :
         IF ok
         THEN /\ xw' = [xw EXCEPT ![w].pc = "create"]
              /\ NoReport
         ELSE /\ Report([kind |-> "open", entry |-> xw[w].job])
              /\ xw' = [xw EXCEPT ![w] = [pc |-> "exit", job |-> 0]]
    /\ UNCHANGED <<xpc, xStats, xErr, xDir, xJobChan, xJobClosed, xProd, xProdPc,
                   errClosed, xDone, destDirs, destFiles, writes>>
    /\ UNCHANGED <<xCalls, xLock>>
    /\ XFrame

\* os.OpenFile(job.destPath, O_WRONLY|O_CREATE|O_TRUNC, mode)
XCreateFile(w) ==
    /\ Running /\ xw[w].pc = "create"
    /\ LET i == xw[w].job
           p == JoinDest(xArchive[i].name)
       IN  \E ok \in BOOLEAN :
             IF ok /\ CanOpenFile(p)
             THEN /\ destFiles' = WriteFile(destFiles, p, <<>>)
                  /\ writes' = writes \cup { <<i, p>> }
                  /\ xw' = [xw EXCEPT ![w].pc = "copy"]
                  /\ NoReport
             ELSE /\ Report([kind |-> "create", entry |-> i])
                  /\ xw' = [xw EXCEPT ![w] = [pc |-> "exit", job |-> 0]]
                  /\ UNCHANGED <<destFiles, writes>>
    /\ UNCHANGED <<xpc, xStats, xErr, xDir, xJobChan, xJobClosed, xProd, xProdPc,
                   errClosed, xDone, destDirs>>
    /\ UNCHANGED <<xCalls, xLock>>
    /\ XFrame

\* written, err := io.Copy(outFile, rc); both are closed.
XCopy(w) ==
    /\ Running /\ xw[w].pc = "copy"
    /\ LET i == xw[w].job
           p == JoinDest(xArchive[i].name)
       IN  \E ok \in BOOLEAN :
             IF ok
             THEN /\ destFiles' = WriteFile(destFiles, p, xArchive[i].data)
                  /\ xw' = [xw EXCEPT ![w].pc = "acct"]
                  /\ NoReport
             ELSE /\ Report([kind |-> "copy", entry |-> i])
                  /\ xw' = [xw EXCEPT ![w] = [pc |-> "exit", job |-> 0]]
                  /\ UNCHANGED destFiles
    /\ UNCHANGED <<xpc, xStats, xErr, xDir, xJobChan, xJobClosed, xProd, xProdPc,
                   errClosed, xDone, destDirs, writes>>
    /\ UNCHANGED <<xCalls, xLock>>
    /\ XFrame

\* A mutant of XAccount: done is added to without taking doneMutex.
XAccountNoLock(w) ==
    /\ Running /\ xw[w].pc = "acct"
    /\ xDone' = xDone + Len(xArchive[xw[w].job].data)
    /\ xw' = [xw EXCEPT ![w].pc = "call"]
    /\ UNCHANGED <<xpc, xStats, xErr, xDir, xJobChan, xJobClosed, xProd, xProdPc,
                   errChan, errClosed, destDirs, destFiles, writes, reported,
                   panicked>>
    /\ UNCHANGED <<xCalls, xLock>>
    /\ XFrame

\* doneMutex.Lock(); done += written; doneMutex.Unlock(): the worker waits
\* for the mutex to be free.
XAccount(w) ==
    /\ Running /\ xw[w].pc = "acct"
    /\ xLock = 0
    /\ xDone' = xDone + Len(xArchive[xw[w].job].data)
    /\ xw' = [xw EXCEPT ![w].pc = "call"]
    /\ UNCHANGED <<xpc, xStats, xErr, xDir, xJobChan, xJobClosed, xProd, xProdPc,
                   errChan, errClosed, destDirs, destFiles, writes, reported,
                   panicked>>
    /\ UNCHANGED <<xCalls, xLock>>
    /\ XFrame

\* callProgress(): doneMutex.Lock() and progress(done, totalBytes) is
\* entered, the mutex held while the callback runs.
XCallProgress(w) ==
    /\ Running /\ xw[w].pc = "call"
    /\ xLock = 0
    /\ xLock' = w
    /\ xCalls' = Append(xCalls, [done |-> xDone, total |-> xStats.totalBytes])
    /\ xw' = [xw EXCEPT ![w].pc = "incall"]
    /\ UNCHANGED <<xpc, xStats, xErr, xDir, xJobChan, xJobClosed, xProd, xProdPc,
                   errChan, errClosed, xDone, destDirs, destFiles, writes,
                   reported, panicked>>
    /\ XFrame

\* The callback returns; doneMutex.Unlock().
XProgressReturns(w) ==
    /\ Running /\ xw[w].pc = "incall"
    /\ xLock' = 0
    /\ xw' = [xw EXCEPT ![w] = [pc |-> "recv", job |-> 0]]
    /\ UNCHANGED <<xpc, xStats, xErr, xDir, xJobChan, xJobClosed, xProd, xProdPc,
                   errChan, errClosed, xDone, destDirs, destFiles, writes,
                   reported, panicked>>
    /\ UNCHANGED xCalls
    /\ XFrame

\* wg.Wait(); close(errChan)
XWait ==
    /\ Running /\ xpc = "wait"
    /\ \A w \in XWorkers : xw[w].pc = "exit"
    /\ errClosed' = TRUE
    /\ xpc' = "check"
    /\ UNCHANGED <<xStats, xErr, xDir, xJobChan, xJobClosed, xProd, xProdPc,
                   errChan, xw, xDone, destDirs, destFiles, writes, reported,
                   panicked>>
    /\ UNCHANGED <<xCalls, xLock>>
    /\ XFrame

\* if err := <-errChan; err != nil { return stats, err }; callProgress();
\* return stats, nil
XReturn ==
    /\ Running /\ xpc = "check"
    /\ xLock = 0
    /\ IF errChan # <<>>
       THEN /\ xErr' = Head(errChan) /\ errChan' = Tail(errChan)
            /\ UNCHANGED xCalls
       ELSE /\ xErr' = NoErr /\ UNCHANGED errChan
            /\ xCalls' = Append(xCalls, [done |-> xDone, total |-> xStats.totalBytes])
    /\ xpc' = "returned"
    /\ UNCHANGED <<xStats, xDir, xJobChan, xJobClosed, xProd, xProdPc, errClosed,
                   xw, xDone, destDirs, destFiles, writes, reported, panicked>>
    /\ UNCHANGED xLock
    /\ XFrame

\* The ways io.Copy's reads through the progressReader can cut n bytes: the
\* sequences of read sizes, each at least one byte, that add up to n.
RECURSIVE Chunkings(_)
Chunkings(n) ==
    IF n = 0 THEN { <<>> }
    ELSE UNION { { <<k>> \o c : c \in Chunkings(n - k) } : k \in 1..n }

\* progressReader.Read: after each read of n > 0 bytes, *pr.done += n and
\* pr.progress(*pr.done, pr.total).
RECURSIVE ReadCalls(_, _, _)
ReadCalls(chunks, d, total) ==
    IF chunks = <<>> THEN <<>>
    ELSE << [done |-> d + Head(chunks), total |-> total] >>
         \o ReadCalls(Tail(chunks), d + Head(chunks), total)

\* One turn of ExtractGzipWithProgress's loop over the tar headers: the name
\* is checked first; a directory is made; for a regular file the parent
\* directory is made, the file is opened and the content copied through a
\* progressReader.  out is the step that fails, or "ok"; a copy that fails
\* has read m bytes of the content before.
XTarEntry(out) ==
    LET i == xDir
        e == xArchive[i]
        p == JoinDest(e.name)
    IN  IF ~IsLocal(e.name)
        THEN /\ ReturnErr([kind |-> "path", entry |-> i])
             /\ UNCHANGED <<xDir, xDone, destDirs, destFiles, writes, xCalls>>
        ELSE IF e.isDir
        THEN IF out = "ok" /\ CanMkdirAll(p)
             THEN /\ destDirs' = destDirs \cup Ancestors(p)
                  /\ writes' = writes \cup { <<i, q>> : q \in Ancestors(p) }
                  /\ xDir' = i + 1
                  /\ UNCHANGED <<xpc, xErr, reported, errChan, panicked, xDone,
                                 destFiles, xCalls>>
             ELSE /\ ReturnErr([kind |-> "mkdir", entry |-> i])
                  /\ UNCHANGED <<xDir, xDone, destDirs, destFiles, writes, xCalls>>
        ELSE IF out = "mkdir" \/ ~CanMkdirAll(Dir(p))
        THEN /\ ReturnErr([kind |-> "mkdir", entry |-> i])
             /\ UNCHANGED <<xDir, xDone, destDirs, destFiles, writes, xCalls>>
        ELSE /\ destDirs' = destDirs \cup Ancestors(Dir(p))
             /\ IF out = "create" \/ p \in destDirs
                THEN /\ ReturnErr([kind |-> "create", entry |-> i])
                     /\ writes' = writes \cup { <<i, q>> : q \in Ancestors(Dir(p)) }
                     /\ UNCHANGED <<xDir, xDone, destFiles, xCalls>>
                ELSE /\ writes' = writes \cup { <<i, q>> : q \in Ancestors(Dir(p)) }
                                         \cup { <<i, p>> }
                     /\ IF out = "copy"
                        THEN /\ ReturnErr([kind |-> "copy", entry |-> i])
                             /\ \E m \in 0..Len(e.data) : \E c \in Chunkings(m) :
                                  /\ destFiles' = WriteFile(destFiles, p,
                                                            SubSeq(e.data, 1, m))
                                  /\ xDone' = xDone + m
                                  /\ xCalls' = xCalls \o
                                       ReadCalls(c, xDone, xStats.totalBytes)
                             /\ UNCHANGED xDir
                        ELSE /\ destFiles' = WriteFile(destFiles, p, e.data)
                             /\ xDone' = xDone + Len(e.data)
                             /\ \E c \in Chunkings(Len(e.data)) :
                                  xCalls' = xCalls \o
                                       ReadCalls(c, xDone, xStats.totalBytes)
                             /\ xDir' = i + 1
                             /\ UNCHANGED <<xpc, xErr, reported, errChan, panicked>>

XTarEntries ==
    /\ Running /\ xpc = "tar" /\ xDir <= Len(xArchive)
    /\ \E out \in {"ok", "mkdir", "create", "copy"} : XTarEntry(out)
    /\ UNCHANGED <<xStats, xJobChan, xJobClosed, xProd, xProdPc, errClosed, xw>>
    /\ UNCHANGED xLock
    /\ XFrame

\* io.EOF: the last progress callback and return stats, nil.
XTarReturn ==
    /\ Running /\ xpc = "tar" /\ xDir > Len(xArchive)
    /\ xCalls' = Append(xCalls, [done |-> xDone, total |-> xStats.totalBytes])
    /\ xErr' = NoErr
    /\ xpc' = "returned"
    /\ UNCHANGED <<xStats, xDir, xJobChan, xJobClosed, xProd, xProdPc, errChan,
                   errClosed, xw, xDone, destDirs, destFiles, writes, reported,
                   panicked>>
    /\ UNCHANGED xLock
    /\ XFrame

ExtractNext ==
    \/ XOpen \/ XMkdirs \/ XSpawn
    \/ XSendJobs \/ XCloseJobs
    \/ \E w \in XWorkers : XRecvJob(w)
    \/ \E w \in XWorkers : XOpenEntry(w)
    \/ \E w \in XWorkers : XCreateFile(w)
    \/ \E w \in XWorkers : XCopy(w)
    \/ \E w \in XWorkers : XAccount(w)
    \/ \E w \in XWorkers : XCallProgress(w)
    \/ \E w \in XWorkers : XProgressReturns(w)
    \/ XWait \/ XReturn
    \/ XTarEntries \/ XTarReturn

\* The archive just created is extracted into an empty directory.
StartExtract ==
    /\ phase = "create" /\ Created /\ tampered = "none" /\ ~vres.called
    /\ phase' = "extract"
    /\ xArchive' = archive.entries
    /\ xpc' = "open"
    /\ UNCHANGED <<xStats, xErr, xDir, xJobChan, xJobClosed, xProd, xProdPc,
                   errChan, errClosed, xw, xDone, destDirs, destFiles, writes,
                   reported, panicked, xCalls, xLock>>
    /\ UNCHANGED <<workerCount, format, createVars, diskVars, shaTable, verifyVars>>

InitExtract ==
    /\ xStats = [totalBytes |-> 0, fileCount |-> 0]
    /\ xErr = NoErr
    /\ xDir = 0
    /\ xJobChan = <<>>
    /\ xJobClosed = FALSE
    /\ xProd = 0
    /\ xProdPc = "idle"
    /\ errChan = <<>>
    /\ errClosed = FALSE
    /\ xw = [w \in Workers |-> [pc |-> "idle", job |-> 0]]
    /\ xDone = 0
    /\ destDirs = {}
    /\ destFiles = {}
    /\ writes = {}
    /\ reported = <<>>
    /\ panicked = FALSE
    /\ xCalls = <<>>
    /\ xLock = 0

vars == <<workerCount, format, phase, createVars, diskVars, shaTable, verifyVars,
          extractVars>>

Init ==
    /\ workerCount \in { GetWorkerCount(n) : n \in 1..MaxCPU }
    /\ format \in Formats
    /\ phase = "create"
    /\ InitCreate
    /\ tree \in Trees
    /\ totalSize = 0
    /\ tampered = "none"
    /\ vres = NoResult
    /\ xArchive = <<>>
    /\ xpc = "idle"
    /\ InitExtract

Next == CreateNext \/ VerifyNext \/ StartExtract \/ ExtractNext

Spec == Init /\ [][Next]_vars

\* The creation alone, every goroutine that can take a step taking one in
\* the end (the Go scheduler runs every runnable goroutine).
SpecCreate == Init /\ [][CreateNext]_vars /\ WF_vars(CreateNext)

\* ------------------------------------------- extraction of any archive

\* Largest number of entries of an archive handed to the extraction.
MaxArchive == 2

FileEntry(abs, comps) ==
    [name |-> [abs |-> abs, comps |-> comps, slash |-> FALSE],
     isDir |-> FALSE, method |-> "Deflate", data |-> <<7>>]

DirEntry(comps) ==
    [name |-> [abs |-> FALSE, comps |-> comps, slash |-> TRUE],
     isDir |-> TRUE, method |-> "Store", data |-> <<>>]

\* The entries an archive is made of: "d/", "d/f", "g", "d/../g", and the
\* names that leave the destination: "../x", "d/../../y", "/r", "../e/".
AnyEntries ==
    { DirEntry(<<"d">>), FileEntry(FALSE, <<"d", "f">>), FileEntry(FALSE, <<"g">>),
      FileEntry(FALSE, <<"d", "..", "g">>),
      FileEntry(FALSE, <<"..", "x">>), FileEntry(FALSE, <<"d", "..", "..", "y">>),
      FileEntry(TRUE, <<"r">>), DirEntry(<<"..", "e">>) }

AnyArchives ==
    { a \in UNION { [1..n -> AnyEntries] : n \in 0..MaxArchive } :
        \A i, j \in 1..Len(a) : i # j => a[i] # a[j] }

InitAny ==
    /\ workerCount \in { GetWorkerCount(n) : n \in 1..MaxCPU }
    /\ format \in Formats
    /\ phase = "extract"
    /\ InitCreate
    /\ totalSize = 0
    /\ tree = {}
    /\ tampered = "none"
    /\ vres = NoResult
    /\ xArchive \in AnyArchives
    /\ xpc = "open"
    /\ InitExtract

\* Every goroutine that can take a step takes one in the end (the Go
\* scheduler runs every runnable goroutine).
SpecExtract == InitAny /\ [][ExtractNext]_vars /\ WF_vars(ExtractNext)

\* ------------------------------------------- the compression policy alone

\* The sizes around a limit of a tier that are tried: up to MaxDelta bytes
\* below and above it.
MaxDelta == 4

TierLimits == { 10 * MB, 100 * MB, 500 * MB }

PolicySizes ==
    { 0, 1 } \cup { l + d : l \in TierLimits, d \in (0 - MaxDelta)..MaxDelta }

InitPolicy ==
    /\ workerCount = GetWorkerCount(1)
    /\ format \in Formats
    /\ phase = "policy"
    /\ InitCreate
    /\ totalSize \in PolicySizes
    /\ tree = {}
    /\ tampered = "none"
    /\ vres = NoResult
    /\ xArchive = <<>>
    /\ xpc = "idle"
    /\ InitExtract

\* compressionLevel := getOptimalCompressionLevel(totalSize)
SelectLevel ==
    /\ phase = "policy" /\ compressionLevel = <<>>
    /\ compressionLevel' = <<GetOptimalCompressionLevel(totalSize)>>
    /\ UNCHANGED <<tree, cpc, stats, cErr, files, cJobChan, cJobClosed, cProd,
                   dataChan, dataClosed, cw, cur, done, skipped, cCalls, cFile,
                   totalSize>>
    /\ UNCHANGED <<workerCount, format, phase, diskVars, shaTable, verifyVars,
                   extractVars>>

SpecPolicy == InitPolicy /\ [][SelectLevel]_vars

\* --------------------------------------- the creation of the whole tree

\* The trees that hold every regular file of the model (three, two of them
\* next to each other in the walk and the third too when "e" is left out),
\* so that the pool has more results than dataChan and the workers can hold.
PoolTrees == { t \in SUBSET Range(WalkOrder) :
                 /\ \A p \in t : Len(p) > 1 => Dir(p) \in t
                 /\ Range(WalkOrder) \ SrcDirs \subseteq t }

InitPool ==
    /\ workerCount \in { GetWorkerCount(n) : n \in 1..MaxCPU }
    /\ format \in Formats
    /\ phase = "create"
    /\ InitCreate
    /\ tree \in PoolTrees
    /\ totalSize = 0
    /\ tampered = "none"
    /\ vres = NoResult
    /\ xArchive = <<>>
    /\ xpc = "idle"
    /\ InitExtract

SpecPool == InitPool /\ [][CreateNext]_vars /\ WF_vars(CreateNext)

\* ------------------------------------------------------------- claims

FirstReported == IF reported = <<>> THEN NoErr ELSE reported[1]

EntrySet(file) == { file.entries[i] : i \in 1..Len(file.entries) }

\* C1: in both extractions every path created (a directory, a parent
\* directory, a file) was created for an entry whose name is relative and
\* resolves inside the destination root, and lies inside that root: nothing
\* is created for an entry that is not local.
C1_GuardBeforeWrite ==
    \A wr \in writes :
        LET n == xArchive[wr[1]].name
        IN  ~n.abs /\ Inside(JoinDest(n)) /\ Inside(wr[2])

\* C1's case: an extraction that wrote something has rejected an entry.
C1_Witness ==
    xpc = "returned" /\ xErr.kind = "path" /\ writes # {}

\* C2: VerifyChecksum on the untouched zip archive just created returns
\* (true, d, nil) with d the checksum the creation returned.
C2_ZipVerifiesAfterCreate ==
    (vres.called /\ tampered = "none" /\ format = "zip")
        => (vres.ok /\ vres.err = "nil" /\ vres.stored = stats.checksum)

\* C3: VerifyChecksum on the untouched tar.gz archive just created returns
\* (true, d, nil) with d the checksum the creation returned, the first field
\* of the sidecar.
C3_GzipVerifiesAfterCreate ==
    (vres.called /\ tampered = "none" /\ format = "gz")
        => /\ vres.ok /\ vres.err = "nil" /\ vres.stored = stats.checksum
           /\ sidecar.exists /\ Fields(sidecar.text)[1] = stats.checksum

C3_Witness ==
    vres.called /\ tampered = "none" /\ format = "gz" /\ vres.ok
    /\ Len(archive.entries) >= 2

\* C4: after a successful extraction of the archive just created, every
\* regular file of the source tree that was not skipped stands at the same
\* relative path under the destination with the same content.
C4_RoundTrip ==
    (phase = "extract" /\ xpc = "returned" /\ xErr = NoErr)
        => \A p \in FilesOf(tree) \ skipped :
              [path |-> <<DestRoot>> \o p, data |-> Content(p)] \in destFiles

C4_Witness ==
    /\ phase = "extract" /\ xpc = "returned" /\ xErr = NoErr
    /\ workerCount >= 2 /\ Cardinality(FilesOf(tree) \ skipped) >= 2

\* C5 as stated: after any change of a single byte of the archive file,
\* VerifyChecksum returns (false, originalDigest, nil).
C5_AnyByte ==
    (vres.called /\ tampered \in {"data", "structure", "comment"})
        => (~vres.ok /\ vres.err = "nil" /\ vres.stored = stats.checksum)

\* C5 as amended: after a change of a single byte of a tar.gz archive, or of
\* a byte of the entry data of a zip archive, VerifyChecksum returns
\* (false, originalDigest, nil).
C5_ByteOutsideDigest ==
    (vres.called /\ (tampered = "data" \/ (format = "gz" /\ tampered = "structure")))
        => (~vres.ok /\ vres.err = "nil" /\ vres.stored = stats.checksum)

C5_Witness ==
    vres.called /\ tampered = "data" /\ format = "gz" /\ ~vres.ok

\* C6: VerifyChecksum returns an error exactly when the format is not
\* supported, the archive cannot be read or no stored digest is found; else
\* it returns the stored digest with a nil error, also on a mismatch.
C6_ErrorIffNoDigest ==
    vres.called =>
        LET ext == ToLowerExt(archExt)
            unsupported == ext \notin {".zip", ".gz"}
            unreadable == IF ext = ".zip" THEN ~ZipReadable(archive)
                          ELSE ~archive.exists
            nodigest == IF ext = ".zip"
                        THEN ~HasPrefix(archive.comment, ChecksumPrefix)
                        ELSE \/ ~sidecar.exists
                             \/ \A k \in 1..Len(sidecar.text) : IsSpace(sidecar.text[k])
        IN  /\ (vres.err # "nil") <=> (unsupported \/ unreadable \/ nodigest)
            /\ vres.err # "nil" => ~vres.ok
            /\ vres.err = "nil" =>
                 vres.stored = IF ext = ".zip"
                               THEN SubSeq(archive.comment, Len(ChecksumPrefix) + 1,
                                           Len(archive.comment))
                               ELSE Fields(sidecar.text)[1]

\* C6's case: a stored digest was found and does not match.
C6_Witness ==
    vres.called /\ vres.err = "nil" /\ ~vres.ok /\ tampered = "sidecar"

\* C7: the fileCount and totalBytes of the extraction are those the creation
\* returned, less the files it skipped and their bytes.
C7_ExtractCounts ==
    (phase = "extract" /\ xpc # "open")
        => /\ xStats.fileCount = stats.fileCount - Cardinality(skipped)
           /\ xStats.totalBytes = stats.totalBytes - SumSizes(skipped)

C7_Witness ==
    phase = "extract" /\ xpc # "open" /\ skipped # {} /\ xStats.fileCount >= 1

\* C8 as stated: the ArchiveStats a creation returns count only the files
\* written into the archive.
C8_StatsCountWrittenFiles ==
    Created => /\ stats.fileCount = ExtractTotals(archive.entries).fileCount
               /\ stats.totalBytes = ExtractTotals(archive.entries).totalBytes

\* C8 as amended: the ArchiveStats a creation returns are the scan's totals,
\* skipped files included; the files written into the archive and the bytes
\* done are those totals less the skipped files.
C8_StatsAreScanTotals ==
    (Created /\ tampered = "none")
        => /\ stats.fileCount = Cardinality(FilesOf(tree))
           /\ stats.totalBytes = SumSizes(FilesOf(tree))
           /\ ExtractTotals(archive.entries).fileCount
                = stats.fileCount - Cardinality(skipped)
           /\ done = stats.totalBytes - SumSizes(skipped)

C8_Witness ==
    Created /\ skipped # {} /\ SumSizes(skipped) >= 1 /\ phase = "create"

\* C9: the creation returns in the end; read failures never make it return
\* an error; and when it returns success the archive holds one entry for
\* each scanned directory and each file read, and none for a skipped file.
C9_ReadFailuresDoNotAbort ==
    /\ <>(cpc = "returned")
    /\ [](cpc = "returned" =>
            /\ cErr \in {"nil", "scan", "create", "walk", "write", "close", "add"}
            /\ cErr = "nil" =>
                 /\ EntrySet(archive) = { EntryOf(p, format) : p \in tree \ skipped }
                 /\ Len(archive.entries) = Cardinality(tree \ skipped))

C9_Witness ==
    Created /\ skipped # {} /\ Len(archive.entries) >= 1 /\ workerCount >= 2

\* C10: the error ExtractWithProgress returns is the first fatal error
\* reported, nil only when none was.
C10_FirstErrorReturned ==
    (format = "zip" /\ xpc = "returned") => xErr = FirstReported

C10_Witness ==
    format = "zip" /\ xpc = "returned" /\ Len(reported) >= 2
    /\ reported[1] # reported[2]

\* An entry of the archive whose name leaves the destination root.
HasEscapingEntry == \E i \in 1..Len(xArchive) : ~IsLocal(xArchive[i].name)

\* C11: an extraction of an archive with an entry whose name leaves the
\* destination root does not die, and the error it returns is the path
\* error that names such an entry, whatever else failed in the run.
C11_PathErrorReturned ==
    HasEscapingEntry =>
        /\ ~panicked
        /\ xpc = "returned" =>
             /\ xErr.kind = "path"
             /\ ~IsLocal(xArchive[xErr.entry].name)

\* The bytesDone values of a sequence of progress calls never decrease, none
\* exceeds the totalBytes passed with it, and every call passes total.
WellFormedCalls(calls, total) ==
    /\ \A i \in 1..Len(calls) : calls[i].done <= calls[i].total
    /\ \A i \in 1..Len(calls) : calls[i].total = total
    /\ \A i, j \in 1..Len(calls) : i <= j => calls[i].done <= calls[j].done

\* The create call is past its writer loop and has not failed.
CreateWorkDone ==
    /\ cpc \in {"finish", "sum", "persist", "copy", "remove", "rename", "returned"}
    /\ cErr \in {"nil", "close", "add"}

\* C12: in creation and in extraction the bytesDone passed to the progress
\* callback never decreases and never exceeds the totalBytes passed with
\* it, which is the scan's total in every call; the totals are those of the
\* scan from the first call on; the last call of a creation passes the sizes
\* of the files written (the total when none was skipped), the last call of
\* a successful extraction the total.
C12_ProgressWellFormed ==
    /\ WellFormedCalls(cCalls, SumSizes(FilesOf(tree)))
    /\ cCalls # <<>> =>
         /\ stats.totalBytes = SumSizes(FilesOf(tree))
         /\ stats.fileCount = Cardinality(FilesOf(tree))
    /\ CreateWorkDone =>
         /\ cCalls[Len(cCalls)].done = SumSizes(FilesOf(tree) \ skipped)
         /\ skipped = {} => cCalls[Len(cCalls)].done = stats.totalBytes
    /\ WellFormedCalls(xCalls, SumData(xArchive))
    /\ xCalls # <<>> => xStats = ExtractTotals(xArchive)
    /\ (xpc = "returned" /\ xErr = NoErr) =>
         xCalls[Len(xCalls)].done = xStats.totalBytes

\* C12's case: files were skipped by the creation, and the archive made was
\* extracted with success, callbacks made for files in both.
C12_Witness ==
    /\ phase = "extract" /\ xpc = "returned" /\ xErr = NoErr
    /\ skipped # {} /\ Len(cCalls) >= 3 /\ Len(xCalls) >= 3
    /\ cCalls[Len(cCalls)].done < stats.totalBytes

\* The create call has left its writer loop without an error.
PastWriterLoop ==
    \/ cpc \in {"finish", "sum", "persist", "copy", "remove", "rename"}
    \/ cpc = "returned" /\ cErr \in {"nil", "close", "add"}

NonEmptyFiles(es) ==
    Cardinality({ i \in 1..Len(es) : ~es[i].isDir /\ es[i].data # <<>> })

ExtractedOk == xpc = "returned" /\ xErr = NoErr

\* C13 as stated: a successful extraction has made one call before its work,
\* one for each file and one after its work.
C13_OncePerFile ==
    ExtractedOk => Len(xCalls) = 2 + xStats.fileCount

\* C13 as amended.  No job is collected, read or written, and nothing is
\* made in the destination, before the first call, which passes 0.  A
\* creation has made one call for each file written, and one more once its
\* writer loop is left.  A successful zip extraction has made one call for
\* each file and one at its end; a successful tar.gz extraction one call for
\* each read of file content, so at least one for each file that is not
\* empty and none for an empty file, and one at its end.
C13_Callbacks ==
    /\ cCalls = <<>> =>
         /\ files = <<>> /\ archive.entries = <<>>
         /\ \A w \in Workers : cw[w].pc = "idle"
    /\ cCalls # <<>> => cCalls[1].done = 0
    /\ (cCalls # <<>> /\ tampered = "none" /\ archive.exists) =>
         Len(cCalls) = 1 + ExtractTotals(archive.entries).fileCount
                         + (IF PastWriterLoop THEN 1 ELSE 0)
    /\ xCalls = <<>> => (destDirs = {} /\ destFiles = {} /\ xDone = 0)
    /\ xCalls # <<>> => xCalls[1].done = 0
    /\ (ExtractedOk /\ format = "zip") => Len(xCalls) = 2 + xStats.fileCount
    /\ (ExtractedOk /\ format = "gz") =>
         /\ Len(xCalls) >= 2 + NonEmptyFiles(xArchive)
         /\ Len(xCalls) <= 2 + xStats.totalBytes

\* C13's case: a tar.gz archive with an empty file and another file was
\* made and extracted, with fewer calls than files.
C13_Witness ==
    /\ phase = "extract" /\ format = "gz" /\ ExtractedOk
    /\ xStats.fileCount >= 2 /\ NonEmptyFiles(xArchive) >= 1
    /\ Len(xCalls) < 2 + xStats.fileCount
    /\ Len(cCalls) = 2 + xStats.fileCount

\* The workers whose call of the progress callback is running.
InCallback == { w \in XWorkers : xw[w].pc = "incall" }

\* C14: at most one goroutine is inside the progress callback at a time: a
\* worker is inside it only while it holds doneMutex, and none is while the
\* main routine makes its own calls (before the workers start, after they
\* have ended); bytes done is added to only by a goroutine that has taken
\* the free mutex, never while a callback runs; in creation only the
\* writer loop's routine adds to bytes done and calls the callback.
C14_CallbackSerialized ==
    /\ [](/\ Cardinality(InCallback) <= 1
          /\ \A w \in InCallback : xLock = w
          /\ xLock # 0 => xLock \in InCallback
          /\ xpc \in {"open", "mkdirs", "tar", "check", "returned"} => InCallback = {})
    /\ [][xDone' # xDone => (xLock = 0 /\ xLock' = 0)]_vars
    /\ [][(done' # done \/ cCalls' # cCalls)
            => (phase = "create" /\ cpc \in {"create", "drain", "entry"})]_vars

\* C14's case: one worker is inside the callback while another has written
\* its file and waits for the mutex.
C14_Witness ==
    \E w1, w2 \in XWorkers :
        /\ w1 # w2
        /\ xw[w1].pc = "incall"
        /\ xw[w2].pc \in {"acct", "call"}

\* C15: the digest is taken only of an archive whose container was ended by
\* its writer's Close and whose file was closed, both with success; after a
\* close that failed the call has returned that error, and no digest was
\* computed, returned or stored in a comment or a sidecar.
C15_DigestAfterClose ==
    /\ (cpc \in {"sum", "persist", "copy", "remove", "rename"}
          \/ stats.checksum # <<>> \/ shaTable # <<>>)
         => (cFile = "closed" /\ cErr \in {"nil", "add"})
    /\ (cpc \in {"sum", "persist", "copy", "remove"} /\ tampered = "none")
         => archive.sealed
    /\ (cFile = "open" /\ cpc = "returned") => cErr \in {"walk", "write", "close"}
    /\ cErr = "close" =>
         /\ cpc = "returned"
         /\ stats.checksum = <<>> /\ shaTable = <<>>
         /\ archive.comment = <<>> /\ ~sidecar.exists

\* C15's case: a creation that wrote entries took the digest of the closed
\* archive and stored it.
C15_Witness ==
    /\ Created /\ cFile = "closed" /\ stats.checksum # <<>>
    /\ Len(archive.entries) >= 2
    /\ (archive.comment # <<>> \/ sidecar.exists)

\* C16: when a walk of the source fails (the scan's or the one that
\* collects the jobs), the create call has returned the error without a
\* write: no file stands at the archive path, no handle was opened and no
\* entry was written.
C16_NoWriteOnTraversalFailure ==
    cErr \in {"scan", "walk"} =>
        /\ cpc = "returned"
        /\ ~archive.exists /\ cFile = "none"
        /\ archive.entries = <<>>

\* The entries a creation over tree t that could not read the files in
\* unread puts into a container of format fmt, whatever the number of
\* workers and the order.
ExpectedEntries(t, unread, fmt) == { EntryOf(q, fmt) : q \in t \ unread }

\* C17: what a successful creation returns and writes is fixed by the source
\* tree (and by the files that could not be read), not by the number of
\* workers: fileCount and totalBytes are the tree's, and the archive holds
\* each expected entry once, in some order.
C17_PoolSizeIndependent ==
    Created =>
        /\ stats.fileCount = Cardinality(FilesOf(tree))
        /\ stats.totalBytes = SumSizes(FilesOf(tree))
        /\ \A q \in tree \ skipped :
             Cardinality({ i \in 1..Len(archive.entries) :
                             archive.entries[i] = EntryOf(q, format) }) = 1
        /\ \A i \in 1..Len(archive.entries) :
             archive.entries[i] \in ExpectedEntries(tree, skipped, format)

\* C17's case: with more than one worker the entries were written in
\* another order than the jobs were submitted in.
C17_Witness ==
    /\ Created /\ phase = "create" /\ tampered = "none"
    /\ workerCount >= 2 /\ skipped = {}
    /\ Len(archive.entries) = Len(files) /\ Len(files) >= 2
    /\ \E i \in 1..Len(files) : archive.entries[i] # EntryOf(files[i], format)

\* C18: every entry written by a creation, zip or tar.gz, is named by the
\* path of a source entry relative to the source root, and its name ends
\* with "/" exactly when it is a directory.
C18_EntryNames ==
    (phase = "create" /\ tampered = "none") =>
        \A i \in 1..Len(archive.entries) :
            LET e == archive.entries[i] IN
            /\ ~e.name.abs
            /\ e.name.comps \in tree
            /\ e.isDir <=> e.name.comps \in SrcDirs
            /\ e.name.slash <=> e.isDir

\* C19: the step in which VerifyChecksum is called and returns changes
\* neither the archive file, nor the sidecar file, nor the name of either.
C19_VerifyReadsOnly ==
    [][(~vres.called /\ vres'.called)
         => (archive' = archive /\ sidecar' = sidecar /\ archExt' = archExt)]_vars

\* C19's case: VerifyChecksum has found a digest in the sidecar that is not
\* the digest of the archive, both files standing.
C19_Witness ==
    /\ vres.called /\ vres.err = "nil" /\ ~vres.ok
    /\ format = "gz" /\ tampered = "data"
    /\ archive.exists /\ sidecar.exists
    /\ Fields(sidecar.text)[1] = stats.checksum

C21_MethodByExtension ==
    (phase = "create" /\ tampered = "none") =>
        \A i \in 1..Len(archive.entries) :
            LET e == archive.entries[i]
                ext == ToLower(Ext(e.name.comps[Len(e.name.comps)]))
            IN  ~e.isDir =>
                  e.method = IF ext \in NoCompress THEN "Store" ELSE "Deflate"

\* The number of places of a sequence that hold x.
Count(seq, x) == Cardinality({ i \in 1..Len(seq) : seq[i] = x })

\* The workers that hold job j (received, not yet sent on or given up).
Holders(j) == { w \in Workers : cw[w].job = j }

\* The places job j is at: waiting in jobChan, held by a worker, waiting in
\* dataChan as a result, held by the writer loop, written as an entry, or
\* given up as unreadable.
Places(j) ==
    Count(cJobChan, j) + Cardinality(Holders(j)) + Count(dataChan, j)
      + (IF cur = j THEN 1 ELSE 0)
      + Count(archive.entries, EntryOf(files[j], format))
      + (IF files[j] \in skipped THEN 1 ELSE 0)

\* C22: in a creation every job sent is at one place at a time: in jobChan,
\* with one worker, in dataChan, with the writer, in the archive as one
\* entry, or skipped (a job whose write failed is at none: the call has
\* returned the error; nor are the entries at the archive path once the
\* rewrite for the checksum has removed the original); a job enters jobChan
\* only from the sender, once, and
\* a worker gets a job only by taking the head of jobChan, no other worker
\* getting one in the same step; a skipped file has no result and no entry;
\* after a successful creation every job is an entry or skipped.
C22_EachJobOnce ==
    /\ [](\A j \in 1..Len(files) :
            /\ (j <= cProd /\ cErr # "write" /\ archive.exists) => Places(j) = 1
            /\ Places(j) <= 1
            /\ j > cProd => Places(j) = 0
            /\ files[j] \in skipped =>
                 (~IsDirJob(files[j]) /\ Count(dataChan, j) = 0 /\ cur # j))
    /\ [](Created =>
            \A j \in 1..Len(files) :
               Count(archive.entries, EntryOf(files[j], format))
                 = (IF files[j] \in skipped THEN 0 ELSE 1))
    /\ [][\A j \in 1..Len(files) :
            Count(cJobChan', j) > Count(cJobChan, j)
               => (j = cProd + 1 /\ cProd' = j)]_vars
    /\ [][\A w \in Workers :
            (cw'[w].job # cw[w].job /\ cw'[w].job # 0)
               => /\ cJobChan # <<>> /\ cw'[w].job = Head(cJobChan)
                  /\ cJobChan' = Tail(cJobChan)
                  /\ \A v \in Workers \ {w} : cw'[v] = cw[v]]_vars

\* C22's case: two workers hold a job each while a result waits in dataChan.
C22_Witness ==
    \E w1, w2 \in Workers :
        /\ w1 # w2 /\ cw[w1].job # 0 /\ cw[w2].job # 0
        /\ dataChan # <<>>

\* The extracting workers that hold an open reader on an entry of the
\* archive: job.file.Open() has returned rc, rc.Close() is not yet called.
XReaders == { w \in XWorkers : xw[w].pc \in {"create", "copy"} }

\* C23 as stated: no worker ever reads from the archive itself, so that at
\* most one routine works on it at a time.
C23_WorkersNeverTouchArchive == XReaders = {}

\* C23 as amended.  In a creation the archive is written only by steps of
\* the routine that runs the writer loop (the creation of the file, an
\* entry, the closes, the checksum comment), never by a step of a worker.
\* An extraction never writes the archive.  In a tar.gz extraction no worker
\* runs: the one routine reads the stream.  In a zip extraction the entries
\* are read by the workers, each through a reader of its own on the entry of
\* its job, up to workerCount of them at a time and no two on the same
\* entry; none is open before the directory pass is over nor once the call
\* has returned through wg.Wait.
C23_ArchiveStreamUsers ==
    /\ [][(archive' # archive /\ phase = "create" /\ ~Created)
            => (cpc \in {"create", "entry", "finish", "remove", "rename"}
                /\ cw' = cw)]_vars
    /\ [][phase = "extract" => (archive' = archive /\ xArchive' = xArchive)]_vars
    /\ [](format = "gz" => \A w \in XWorkers : xw[w].pc = "idle")
    /\ [](/\ Cardinality(XReaders) <= workerCount
          /\ \A w1, w2 \in XReaders : w1 # w2 => xw[w1].job # xw[w2].job
          /\ \A w \in XReaders : ~xArchive[xw[w].job].isDir
          /\ xpc \in {"idle", "open", "mkdirs", "check", "returned"} => XReaders = {})

\* C23's case: two workers of a zip extraction read an entry each at the
\* same time.
C23_Witness ==
    /\ phase = "extract" /\ format = "zip"
    /\ \E w1, w2 \in XReaders : w1 # w2 /\ xw[w1].pc = "copy" /\ xw[w2].pc = "copy"

\* C24: once a fatal error was reported in ExtractWithProgress, no worker
\* begins the extraction of another file: a worker at most ends the file it
\* is at.
C24_NoNewFileAfterFatal ==
    [][(format = "zip" /\ reported # <<>>)
         => \A w \in XWorkers : ~(xw[w].pc = "recv" /\ xw'[w].pc = "open")]_vars

\* The goroutines ExtractWithProgress has started have all ended.
XWorkersEnded == \A w \in XWorkers : xw[w].pc \in {"idle", "exit"}

XSenderEnded == xProdPc \in {"idle", "done"}

\* C25: ExtractWithProgress returns in the end, whatever the archive, the
\* number of workers and the failures, with all its workers ended.
C25_AlwaysReturns ==
    format = "zip" => <>(xpc = "returned" /\ XWorkersEnded)

\* C26: no goroutine of ExtractWithProgress sends on errChan once it is
\* closed (such a send panics).
C26_NoSendOnClosed == ~panicked

\* C27: once ExtractWithProgress has returned, its workers and its job
\* sender have ended, and nothing more is made in the destination.
C27_NothingRunsAfterReturn ==
    /\ []((format = "zip" /\ xpc = "returned") => (XWorkersEnded /\ XSenderEnded))
    /\ [][(format = "zip" /\ xpc = "returned")
            => (destDirs' = destDirs /\ destFiles' = destFiles)]_vars

\* The workers of the creation have all ended, and so has the goroutine
\* that closes dataChan after them.
CWorkersEnded == \A w \in Workers : cw[w].pc \in {"idle", "exit"}

CCloserEnded == Spawned => dataClosed

\* C28: after a create call has returned, with success or with an error of
\* its writer loop, its workers and the closing goroutine end: none stays
\* blocked on its send to dataChan.
C28_WorkersEndAfterReturn ==
    [](cpc = "returned" => <>(CWorkersEnded /\ CCloserEnded))

\* The entries of the jobs that were read, in the order of submission.
InJobOrder ==
    LET fs == SelectSeq(files, LAMBDA q : q \notin skipped)
    IN  [i \in 1..Len(fs) |-> EntryOf(fs[i], format)]

\* C29: a result enters dataChan at its end, when a worker has completed
\* its job; the writer takes the result at the head of dataChan and appends
\* the entry of that result, so that the entries stand in the order of
\* arrival; with one worker that is the order of submission (with more it
\* need not be); the entries of a successful creation are, as a set, those
\* of the tree's directories and of the files read, each with the file's
\* content, whatever the order.
C29_ArrivalOrder ==
    /\ [][dataChan' # dataChan
            => \/ dataChan # <<>> /\ dataChan' = Tail(dataChan)
               \/ \E w \in Workers :
                    /\ cw[w].pc = "send" /\ cw'[w].pc = "recv"
                    /\ dataChan' = Append(dataChan, cw[w].job)]_vars
    /\ [][(cur' # cur /\ cur' # 0)
            => (dataChan # <<>> /\ cur' = Head(dataChan)
                /\ dataChan' = Tail(dataChan))]_vars
    /\ [][(Len(archive.entries') > Len(archive.entries) /\ cpc # "rename")
            => (cur # 0 /\ archive.entries'
                             = Append(archive.entries, EntryOf(files[cur], format)))]_vars
    /\ []((Created /\ workerCount = 1) => archive.entries = InJobOrder)
    /\ [](Created =>
            /\ EntrySet(archive) = ExpectedEntries(tree, skipped, format)
            /\ Len(archive.entries) = Len(InJobOrder)
            /\ \A i \in 1..Len(archive.entries) :
                 LET e == archive.entries[i] IN
                 e.data = IF e.isDir THEN <<>> ELSE Content(e.name.comps))

\* C29's case: with two workers the job submitted second was completed and
\* written first.
C29_Witness ==
    /\ Created /\ workerCount >= 2 /\ skipped = {}
    /\ Len(archive.entries) >= 2
    /\ archive.entries[1] = EntryOf(files[2], format)

\* The entries for which something was made in the destination.
Begun == { wr[1] : wr \in writes }

\* Work on a regular-file entry has begun: its parent directory or the file
\* was made, or its job is queued.
FileWorkBegun == xJobChan # <<>> \/ \E i \in Begun : ~xArchive[i].isDir

\* The path of entry i (a directory or a file) was made for that entry.
Made(i) == <<i, JoinDest(xArchive[i].name)>> \in writes

\* C30 as stated: in an extraction, zip or tar.gz, every directory entry of
\* the archive was made before work on a regular-file entry begins.
C30_AllDirsBeforeFiles ==
    FileWorkBegun => \A i \in 1..Len(xArchive) : xArchive[i].isDir => Made(i)

\* C30 as amended.  Zip: every directory entry was made before a file's job
\* is queued or anything is made for a file; the jobs are queued in the
\* order of the archive.  Tar.gz: the entries are gone through in the order
\* of the archive, each made when the pass is at it, directory or file: all
\* entries before the place of the pass were made, none after it.
C30_ExtractionOrder ==
    /\ (format = "zip" /\ FileWorkBegun) =>
         /\ xpc \notin {"open", "mkdirs"}
         /\ \A i \in 1..Len(xArchive) : xArchive[i].isDir => Made(i)
    /\ format = "zip" =>
         /\ \A k \in 1..Len(xJobChan) :
              /\ xJobChan[k] <= xProd /\ ~xArchive[xJobChan[k]].isDir
              /\ \A l \in 1..Len(xJobChan) : k < l => xJobChan[k] < xJobChan[l]
         /\ \A i \in Begun : ~xArchive[i].isDir => i <= xProd
    /\ format = "gz" =>
         /\ xJobChan = <<>>
         /\ \A i \in Begun : i <= xDir
         /\ \A i \in 1..Len(xArchive) : i < xDir => Made(i)

\* C30's case: a tar.gz archive with a file before a directory was
\* extracted.
C30_Witness ==
    /\ format = "gz" /\ ExtractedOk
    /\ \E i, j \in 1..Len(xArchive) :
         i < j /\ ~xArchive[i].isDir /\ xArchive[j].isDir

\* The capacities of the channels of a creation: make(chan fileJob,
\* len(files)) and make(chan fileData, workerCount).
JobChanCap == Len(files)

DataChanCap == workerCount

\* The file contents a creation holds in memory: the results of files in
\* dataChan, the content each worker has read and not yet sent, and the
\* result the writer loop is writing.
HeldContents ==
    Cardinality({ k \in 1..Len(dataChan) : ~IsDirJob(files[dataChan[k]]) })
      + Cardinality({ w \in Workers :
                        cw[w].pc = "send" /\ ~IsDirJob(files[cw[w].job]) })
      + (IF cur # 0 /\ ~IsDirJob(files[cur]) THEN 1 ELSE 0)

\* C31 as stated: jobChan never holds more than the number of jobs, dataChan
\* never more than workerCount results, and at most 2 x workerCount file
\* contents are held at once.
C31_TwiceWorkerCount ==
    /\ Len(cJobChan) <= JobChanCap
    /\ Len(dataChan) <= DataChanCap
    /\ HeldContents <= 2 * workerCount

\* C31 as amended: jobChan has room whenever the sender has a job left to
\* send; dataChan never holds more than workerCount results, and a result is
\* added only when it holds fewer, so that a worker with a result waits
\* while it is full; at most 2 x workerCount + 1 file contents are held at
\* once: workerCount in dataChan, one with each worker, one with the writer.
C31_Backpressure ==
    /\ [](/\ Len(cJobChan) <= JobChanCap
          /\ cProd < Len(files) => Len(cJobChan) < JobChanCap
          /\ Len(dataChan) <= DataChanCap
          /\ HeldContents <= 2 * workerCount + 1)
    /\ [][Len(dataChan') > Len(dataChan) => Len(dataChan) < DataChanCap]_vars
    /\ [][\A w \in Workers :
            (cw[w].pc = "send" /\ Len(dataChan) = DataChanCap
               /\ dataChan' = dataChan) => cw'[w] = cw[w]]_vars

\* C31's case: dataChan is full, every worker holds a content it has read
\* and waits, and the writer is writing another.
C31_Witness ==
    /\ Len(dataChan) = DataChanCap
    /\ \A w \in Workers : cw[w].pc = "send"
    /\ cpc = "entry"
    /\ HeldContents = 2 * workerCount + 1

\* C32: while a call of the progress callback runs, every other worker that
\* has written its file can record its bytes: the callback runs with no
\* lock held that a worker waits for.
C32_CallbackBlocksNoWorker ==
    \A v \in XWorkers :
        (InCallback # {} /\ xw[v].pc = "acct") => ENABLED XAccount(v)

\* The steps of addChecksumToZip, from the creation of the temporary file
\* to its rename.
InAddChecksum == format = "zip" /\ cpc \in {"copy", "remove", "rename"}

\* addChecksumToZip has returned: to a caller that returns its error, or the
\* stats when there is none.
AddChecksumReturned ==
    format = "zip" /\ cpc = "returned" /\ cErr \in {"nil", "add"}

\* C33: at every step of addChecksumToZip and after it has returned, with
\* success or with an error, the archive path names a complete zip archive,
\* the original or the rewritten one with the comment, whose entries are
\* those written; no failure of a step leaves the archive missing or
\* written in part; and after an error the temporary file is removed.
C33_ArchiveNeverMissing ==
    ((InAddChecksum \/ AddChecksumReturned) /\ tampered = "none")
        => /\ ZipReadable(archive)
           /\ archive.comment \in {<<>>, ChecksumPrefix \o stats.checksum}
           /\ EntrySet(archive) = ExpectedEntries(tree, skipped, format)
           /\ (cpc = "returned" /\ cErr = "add") => ~tempFile.exists

====
